---- MODULE Spec2Model ----
(***************************************************************************)
(* State-machine model of the ingestion core of the e-commerce analytics   *)
(* backend: the retry / circuit-breaker layer (ErrorHandlerService), the   *)
(* batch path of the stream processor (StreamProcessor) and the batch ETL  *)
(* engine (ETLPipelineService).                                            *)
(*                                                                         *)
(* The specifications share the variables:                                 *)
(*   SpecRetry  - concurrent executeWithRetry calls of one operation name  *)
(*   SpecCB     - concurrent executeWithCircuitBreaker calls of one name   *)
(*   SpecBatch  - handleMessage / batch timer / stop of one processor      *)
(*   SpecETL    - overlapping executeJob / cancelJob / removeJob calls and *)
(*                interval triggers of one job id                          *)
(*   SpecETLHistory - executeJob calls in sequence and getJobHistory calls  *)
(*   SpecETLRun - one executeJob call over every small source, table and   *)
(*                job configuration                                        *)
(*   SpecValidate - validateRecord on every small record and rule list     *)
(*   SpecConnector - extractData calls on one registered source over time  *)
(*   SpecMonitor - processMessage, addQualityRule and removeQualityRule    *)
(*                calls of one DataQualityMonitorService over time         *)
(*   SpecRetryStats - executeWithRetry called again and again               *)
(*   SpecBatchLive - SpecBatch with the event loop's progress                *)
(*   SpecStart   - two start() calls on one stopped StreamProcessor          *)
(*   SpecBuffer  - processMessage calls on a monitor with full buffers     *)
(*   SpecReport  - processMessage with results, the update timer and       *)
(*                 resolveAlert, for the metrics and the report            *)
(*   SpecAlerts  - processMessage, interval ticks, acknowledgeAlert and    *)
(*                resolveAlert calls of one DataQualityMonitorService      *)
(*   SpecProcess - start / stop / updateConfig of one processor and the    *)
(*                processMessage calls of its messages                     *)
(* A specification leaves the variables of the other parts unchanged.      *)
(***************************************************************************)
EXTENDS Integers, Sequences, FiniteSets, TLC

VARIABLES
    \* ---- ErrorHandlerService.executeWithRetry ----
    retryConfig,    \* the merged RetryConfig of the call (lines 64-67)
    opScript,       \* per call: how the wrapped operation behaves
    rpc,            \* per call: position in executeWithRetry
    attempt,        \* per call: local variable attempt
    invocations,    \* per call: number of times operation() was invoked
    lastError,      \* per call: local variable lastError
    sleeps,         \* per call: the delays passed to sleep(), in order
    outcome,        \* per call: what the call returned or threw
    errorStats,     \* errorStats.get(operationName).count, 0 when absent
    statsAtCall,    \* per call: that count when the call was made
    \* ---- ErrorHandlerService.executeWithCircuitBreaker ----
    cbConfig,       \* the CircuitBreakerConfig passed by the callers
    breaker,        \* circuitBreakers.get(operationName)
    now,            \* the clock read by new Date() / Date.now()
    cpc,            \* per caller: position in executeWithCircuitBreaker
    cbAdmit,        \* per caller in flight: breaker state seen at admission
    cbCalls,        \* number of executeWithCircuitBreaker calls made so far
    cbLast,         \* the last breaker event: caller, kind, admission
    streak,         \* consecutive failed calls since the last success/reset
    streakClean,    \* the streak started on a closed breaker with count 0
    \* ---- StreamProcessor (batch path) ----
    batchConfig,    \* config.batchProcessing
    isRunning,      \* StreamProcessor.isRunning
    consumer,       \* StreamProcessor.consumer
    batchBuffer,    \* StreamProcessor.batchBuffer
    batchTimer,     \* StreamProcessor.batchTimer
    batches,        \* the processBatch executions, in the order they began
    handlers,       \* handleMessage invocations in flight
    startPc,        \* per start() call: its position
    liveConsumers,  \* the consumers that are subscribed and running
    stopPc,         \* position of the stop() call
    nextMsg,        \* the next message the broker delivers
    stats,          \* StreamProcessor.stats
    pushed,         \* the messages handleBatchMessage put in the buffer
    \* ---- ETLPipelineService ----
    etlConfig,      \* the ETLJobConfig registered under the job id
    sourceData,     \* the records the data source holds
    table,          \* the destination table: committed row count per key
    jobs,           \* ETLPipelineService.jobs (the registered job ids)
    runningJobs,    \* ETLPipelineService.runningJobs: job id -> execution
    jobHistory,     \* ETLPipelineService.jobHistory: job id -> results
    scheduledJobs,  \* ETLPipelineService.scheduledJobs (ids with an interval)
    epc,            \* per executeJob call: its position
    jobStatus,      \* per executeJob call: status of its ETLJobStatus object
    txnLog,         \* per executeJob call: what was done to its transaction
    locals,         \* per executeJob call: its local variables
    eres,           \* per executeJob call: what it returned or threw
    returned,       \* the last getJobHistory call: its limit and its result
    \* ---- DataValidationService ----
    vRecord,        \* the record passed to validateRecord
    vRules,         \* the rule list passed to validateRecord
    vResult,        \* what the validateRecord call returned
    \* ---- DataConnector ----
    connections,    \* DataConnector.connections: the registered source
    rateLimiters,   \* DataConnector.rateLimiters.get(id) of that source
    connClock,      \* the clock read by Date.now()
    xcalls,         \* the extractData calls made so far, in call order
    \* ---- StreamProcessor (processMessage) ----
    procConfig,     \* StreamProcessor.config: topics and validation policy
    producer,       \* StreamProcessor.producer
    pmsg,           \* per message: position and locals of its processMessage
    outputLog,      \* what was published to config.outputTopic, in order
    deadLetterLog,  \* what was published to the dead-letter topic, in order
    \* ---- StreamProcessor.updateStats ----
    statCalls,      \* per message: the updateStats calls made with its result
    \* ---- DataQualityMonitorService ----
    qualityRules,   \* DataQualityMonitorService.qualityRules
    messageBuffer,  \* DataQualityMonitorService.messageBuffer
    processingResults, \* DataQualityMonitorService.processingResults
    metrics,        \* DataQualityMonitorService.metrics
    alerts,         \* DataQualityMonitorService.alerts, keyed by alert id
    qmClock,        \* the clock read by Date.now() / new Date()
    qmCalls         \* the number of processMessage calls made on the monitor

retryVars == <<retryConfig, opScript, rpc, attempt, invocations, lastError,
               sleeps, outcome, errorStats, statsAtCall>>
cbVars    == <<cbConfig, breaker, now, cpc, cbAdmit, cbCalls,
               cbLast, streak, streakClean>>
batchVars == <<batchConfig, isRunning, consumer, batchBuffer, batchTimer,
               batches, handlers, startPc, liveConsumers, stopPc, nextMsg,
               stats, pushed>>
etlVars   == <<etlConfig, sourceData, table, jobs, runningJobs, jobHistory,
               scheduledJobs, epc, jobStatus, txnLog, locals, eres, returned>>
valVars   == <<vRecord, vRules, vResult>>
connVars  == <<connections, rateLimiters, connClock, xcalls>>
procVars  == <<procConfig, producer, pmsg, outputLog, deadLetterLog>>
statVars  == <<statCalls>>
qmVars    == <<qualityRules, messageBuffer, processingResults, metrics,
               alerts, qmClock>>
qcVars    == <<qmCalls>>
vars      == <<retryVars, cbVars, batchVars, etlVars, valVars, connVars, procVars, statVars, qmVars, qcVars>>

Min(a, b) == IF a < b THEN a ELSE b

RECURSIVE Pow(_, _)
Pow(b, e) == IF e <= 0 THEN 1 ELSE b * Pow(b, e - 1)

(***************************************************************************)
(*                         executeWithRetry                                *)
(***************************************************************************)

\* Bounds of the retry model.
MaxRetriesBound == 3
MaxFailures     == 4
NumRetryCalls   == 1

RetryCalls == 1..NumRetryCalls

\* Strings are sequences of one-character strings, so that toLowerCase and
\* includes are computed, not assumed.
ToLowerChar(c) ==
    CASE c = "A" -> "a"
      [] c = "B" -> "b"
      [] c = "X" -> "x"
      [] OTHER   -> c

ToLowerCase(s) == [i \in 1..Len(s) |-> ToLowerChar(s[i])]

\* String.prototype.includes
Includes(s, t) ==
    \E i \in 1..(Len(s) + 1) :
        /\ i + Len(t) - 1 <= Len(s)
        /\ \A j \in 1..Len(t) : s[i + j - 1] = t[j]

NoCode == <<>>

\* The errors the wrapped operation may throw: message and optional code.
Errors ==
    { [message |-> <<"x", "a", "b", "x">>, code |-> NoCode],
      [message |-> <<"X", "A", "B">>,      code |-> NoCode],
      [message |-> <<"x">>,                code |-> <<"A", "B">>],
      [message |-> <<"x">>,                code |-> <<"a", "b">>],
      [message |-> <<"b", "a">>,           code |-> NoCode] }

NoError == [message |-> <<>>, code |-> NoCode]

\* The retryableErrors lists a configuration may carry.
RetryableLists ==
    { <<>>,
      << <<"A", "B">> >>,
      << <<"X", "X">>, <<"A", "B">> >> }

\* isRetryableError: a case-insensitive substring match on the message, or an
\* exact match on the code.
IsRetryableError(error, config) ==
    \E i \in 1..Len(config.retryableErrors) :
        \/ Includes(ToLowerCase(error.message),
                    ToLowerCase(config.retryableErrors[i]))
        \/ error.code = config.retryableErrors[i]

\* calculateDelay
CalculateDelay(att, config) ==
    Min(config.initialDelay * Pow(config.backoffMultiplier, att - 1),
        config.maxDelay)

\* The catch block of executeWithRetry after attempt++ (lines 101-125):
\* what the call does next, given the error and the incremented attempt.
AfterFailureRetriesAll(error, att, config) ==
    IF att > config.maxRetries THEN "thrown" ELSE "sleeping"

AfterFailureInverted(error, att, config) ==
    IF IsRetryableError(error, config) THEN "thrown"
    ELSE IF att > config.maxRetries THEN "thrown"
    ELSE "sleeping"

AfterFailureOffByOne(error, att, config) ==
    IF ~IsRetryableError(error, config) THEN "thrown"
    ELSE IF att >= config.maxRetries THEN "thrown"
    ELSE "sleeping"

AfterFailure(error, att, config) ==
    IF ~IsRetryableError(error, config) THEN "thrown"
    ELSE IF att > config.maxRetries THEN "thrown"
    ELSE "sleeping"

UpdateErrorStatsFirstOnly(count) == IF count = 0 THEN 1 ELSE count

\* updateErrorStats, lines 329-334: the count after one more failure.
UpdateErrorStats(count) == count + 1

\* The wrapped operation of call c fails on its first failsBefore invocations
\* with its error and succeeds afterwards.
OperationFails(c) == invocations[c] < opScript[c].failsBefore

RetryInitValues ==
    /\ retryConfig \in [maxRetries : 0..MaxRetriesBound,
                        initialDelay : {10},
                        maxDelay : {30},
                        backoffMultiplier : {2},
                        retryableErrors : RetryableLists]
    /\ opScript \in [RetryCalls -> [failsBefore : 0..MaxFailures, error : Errors]]
    /\ rpc = [c \in RetryCalls |-> "idle"]
    /\ attempt = [c \in RetryCalls |-> 0]
    /\ invocations = [c \in RetryCalls |-> 0]
    /\ lastError = [c \in RetryCalls |-> NoError]
    /\ sleeps = [c \in RetryCalls |-> <<>>]
    /\ outcome = [c \in RetryCalls |-> [kind |-> "none", error |-> NoError]]
    /\ errorStats = 0
    /\ statsAtCall = [c \in RetryCalls |-> 0]

RetryIdle ==
    /\ retryConfig = [maxRetries |-> 0, initialDelay |-> 10, maxDelay |-> 30,
                      backoffMultiplier |-> 2, retryableErrors |-> <<>>]
    /\ opScript = [c \in RetryCalls |-> [failsBefore |-> 0, error |-> NoError]]
    /\ rpc = [c \in RetryCalls |-> "idle"]
    /\ attempt = [c \in RetryCalls |-> 0]
    /\ invocations = [c \in RetryCalls |-> 0]
    /\ lastError = [c \in RetryCalls |-> NoError]
    /\ sleeps = [c \in RetryCalls |-> <<>>]
    /\ outcome = [c \in RetryCalls |-> [kind |-> "none", error |-> NoError]]
    /\ errorStats = 0
    /\ statsAtCall = [c \in RetryCalls |-> 0]

\* Lines 59-74: the call is made, attempt = 0.
RetryCall(c) ==
    /\ rpc[c] = "idle"
    /\ rpc' = [rpc EXCEPT ![c] = "loop"]
    /\ attempt' = [attempt EXCEPT ![c] = 0]
    /\ statsAtCall' = [statsAtCall EXCEPT ![c] = errorStats]
    /\ UNCHANGED <<retryConfig, opScript, invocations, lastError, sleeps,
                   outcome, errorStats>>
    /\ UNCHANGED <<cbVars, batchVars, etlVars, valVars, connVars, procVars, statVars, qmVars, qcVars>>

\* Lines 76-83: an iteration whose operation() resolves.
RetryAttemptSucceeds(c) ==
    /\ rpc[c] = "loop"
    /\ attempt[c] <= retryConfig.maxRetries
    /\ ~OperationFails(c)
    /\ invocations' = [invocations EXCEPT ![c] = @ + 1]
    /\ errorStats' = 0                                 \* resetErrorStats
    /\ rpc' = [rpc EXCEPT ![c] = "returned"]
    /\ outcome' = [outcome EXCEPT ![c] = [kind |-> "success", error |-> NoError]]
    /\ UNCHANGED <<retryConfig, opScript, attempt, lastError, sleeps,
                   statsAtCall>>
    /\ UNCHANGED <<cbVars, batchVars, etlVars, valVars, connVars, procVars, statVars, qmVars, qcVars>>

\* Lines 76-78 and 84-126: an iteration whose operation() rejects.
RetryAttemptFails(c) ==
    /\ rpc[c] = "loop"
    /\ attempt[c] <= retryConfig.maxRetries
    /\ OperationFails(c)
    /\ LET err  == opScript[c].error
           att  == attempt[c] + 1
           next == AfterFailure(err, att, retryConfig)
       IN  /\ invocations' = [invocations EXCEPT ![c] = @ + 1]
           /\ lastError' = [lastError EXCEPT ![c] = err]
           /\ attempt' = [attempt EXCEPT ![c] = att]
           /\ errorStats' = UpdateErrorStats(errorStats)
           /\ rpc' = [rpc EXCEPT ![c] = next]
           /\ IF next = "thrown"
              THEN /\ outcome' = [outcome EXCEPT ![c] =
                                     [kind |-> "thrown", error |-> err]]
                   /\ sleeps' = sleeps
              ELSE /\ outcome' = outcome
                   /\ sleeps' = [sleeps EXCEPT ![c] =
                                    Append(@, CalculateDelay(att, retryConfig))]
    /\ UNCHANGED <<retryConfig, opScript, statsAtCall>>
    /\ UNCHANGED <<cbVars, batchVars, etlVars, valVars, connVars, procVars, statVars, qmVars, qcVars>>

\* Line 125: the sleep ends and the loop continues.
RetryWake(c) ==
    /\ rpc[c] = "sleeping"
    /\ rpc' = [rpc EXCEPT ![c] = "loop"]
    /\ UNCHANGED <<retryConfig, opScript, attempt, invocations, lastError,
                   sleeps, outcome, errorStats, statsAtCall>>
    /\ UNCHANGED <<cbVars, batchVars, etlVars, valVars, connVars, procVars, statVars, qmVars, qcVars>>

RetryDone(c) == rpc[c] \in {"returned", "thrown"}

\* Bound of the repeated-call model: no new call once the counter is here.
MaxErrorCount == 4

\* The caller of a finished call calls executeWithRetry again for the same
\* operation name and operation (lines 59-74).
RetryCallAgain(c) ==
    /\ RetryDone(c)
    /\ errorStats < MaxErrorCount
    /\ rpc' = [rpc EXCEPT ![c] = "loop"]
    /\ attempt' = [attempt EXCEPT ![c] = 0]
    /\ invocations' = [invocations EXCEPT ![c] = 0]
    /\ lastError' = [lastError EXCEPT ![c] = NoError]
    /\ sleeps' = [sleeps EXCEPT ![c] = <<>>]
    /\ outcome' = [outcome EXCEPT ![c] = [kind |-> "none", error |-> NoError]]
    /\ statsAtCall' = [statsAtCall EXCEPT ![c] = errorStats]
    /\ UNCHANGED <<retryConfig, opScript, errorStats>>
    /\ UNCHANGED <<cbVars, batchVars, etlVars, valVars, connVars, procVars, statVars, qmVars, qcVars>>

(***************************************************************************)
(*                      executeWithCircuitBreaker                          *)
(***************************************************************************)

\* Bounds of the circuit-breaker model.
NumCallers       == 2
MaxCBCalls       == 5
MaxThreshold     == 2
MaxResetTimeout  == 2
MaxTime          == 3

Callers == 1..NumCallers

Undefined == -1

\* getCircuitBreakerState: the entry a first call creates.
NewBreaker ==
    [state |-> "closed", failureCount |-> 0,
     lastFailureTime |-> Undefined, nextAttemptTime |-> Undefined]

\* Lines 143-146: the call is rejected without invoking the operation.
IsRejectedInverted(st, t) ==
    /\ st.state = "open"
    /\ st.nextAttemptTime # Undefined
    /\ t > st.nextAttemptTime

IsRejected(st, t) ==
    /\ st.state = "open"
    /\ st.nextAttemptTime # Undefined
    /\ t < st.nextAttemptTime

\* Lines 143-152: the breaker after the entry check of an admitted call.
AfterAdmission(st) ==
    IF st.state = "open" THEN [st EXCEPT !.state = "half-open"] ELSE st

AfterSuccessForgets(st) ==
    IF st.state \in {"half-open", "closed"} THEN NewBreaker ELSE st

\* Lines 157-164: the breaker after the operation resolved.
AfterSuccess(st) ==
    IF st.state = "half-open" THEN NewBreaker ELSE st

\* Lines 168-179: the breaker after the operation rejected at time t.
AfterFailureOfCallLate(st, config, t) ==
    LET counted == [st EXCEPT !.failureCount = @ + 1, !.lastFailureTime = t]
    IN  IF counted.failureCount > config.failureThreshold
        THEN [counted EXCEPT !.state = "open",
                             !.nextAttemptTime = t + config.resetTimeout]
        ELSE counted

AfterFailureOfCallUncounted(st, config, t) ==
    IF st.failureCount + 1 >= config.failureThreshold
    THEN [st EXCEPT !.state = "open", !.lastFailureTime = t,
                    !.nextAttemptTime = t + config.resetTimeout]
    ELSE [st EXCEPT !.failureCount = @ + 1, !.lastFailureTime = t]

AfterFailureOfCall(st, config, t) ==
    LET counted == [st EXCEPT !.failureCount = @ + 1, !.lastFailureTime = t]
    IN  IF counted.failureCount >= config.failureThreshold
        THEN [counted EXCEPT !.state = "open",
                             !.nextAttemptTime = t + config.resetTimeout]
        ELSE counted

CBInitValues ==
    /\ cbConfig \in [failureThreshold : 1..MaxThreshold,
                     resetTimeout : 1..MaxResetTimeout]
    /\ breaker = NewBreaker
    /\ now = 0
    /\ cpc = [c \in Callers |-> "idle"]
    /\ cbAdmit = [c \in Callers |-> "none"]
    /\ cbCalls = 0
    /\ cbLast = [caller |-> 0, kind |-> "none", admit |-> "none"]
    /\ streak = 0
    /\ streakClean = TRUE

CBIdle ==
    /\ cbConfig = [failureThreshold |-> 1, resetTimeout |-> 1]
    /\ breaker = NewBreaker
    /\ now = 0
    /\ cpc = [c \in Callers |-> "idle"]
    /\ cbAdmit = [c \in Callers |-> "none"]
    /\ cbCalls = 0
    /\ cbLast = [caller |-> 0, kind |-> "none", admit |-> "none"]
    /\ streak = 0
    /\ streakClean = TRUE

\* How an admitted call saw the breaker: "trial" made the open -> half-open
\* transition, "half-open" found it half-open, "closed" found it closed
\* ("reset" replaces it when resetCircuitBreaker ran while it was in flight).
AdmittedAs(st) ==
    CASE st.state = "open"      -> "trial"
      [] st.state = "half-open" -> "half-open"
      [] OTHER                  -> "closed"

\* Lines 140-146: a call that finds the breaker open before nextAttemptTime.
CBCallRejected(c) ==
    /\ cpc[c] = "idle"
    /\ cbCalls < MaxCBCalls
    /\ IsRejected(breaker, now)
    /\ cbCalls' = cbCalls + 1
    /\ cbLast' = [caller |-> c, kind |-> "rejected", admit |-> "none"]
    /\ UNCHANGED <<cbConfig, breaker, now, cpc, cbAdmit, streak, streakClean>>
    /\ UNCHANGED <<retryVars, batchVars, etlVars, valVars, connVars, procVars, statVars, qmVars, qcVars>>

\* Lines 140-155: a call that is admitted and invokes the operation.
CBCallAdmitted(c) ==
    /\ cpc[c] = "idle"
    /\ cbCalls < MaxCBCalls
    /\ ~IsRejected(breaker, now)
    /\ cbCalls' = cbCalls + 1
    /\ breaker' = AfterAdmission(breaker)
    /\ cpc' = [cpc EXCEPT ![c] = "inflight"]
    /\ cbAdmit' = [cbAdmit EXCEPT ![c] = AdmittedAs(breaker)]
    /\ cbLast' = [caller |-> c, kind |-> "admitted", admit |-> AdmittedAs(breaker)]
    /\ UNCHANGED <<cbConfig, now, streak, streakClean>>
    /\ UNCHANGED <<retryVars, batchVars, etlVars, valVars, connVars, procVars, statVars, qmVars, qcVars>>

\* Lines 155-166: the operation of an admitted call resolves.
CBOperationSucceeds(c) ==
    /\ cpc[c] = "inflight"
    /\ breaker' = AfterSuccess(breaker)
    /\ cpc' = [cpc EXCEPT ![c] = "idle"]
    /\ cbAdmit' = [cbAdmit EXCEPT ![c] = "none"]
    /\ cbLast' = [caller |-> c, kind |-> "ok", admit |-> cbAdmit[c]]
    /\ streak' = 0
    /\ streakClean' = (breaker'.state = "closed" /\ breaker'.failureCount = 0)
    /\ UNCHANGED <<cbConfig, now, cbCalls>>
    /\ UNCHANGED <<retryVars, batchVars, etlVars, valVars, connVars, procVars, statVars, qmVars, qcVars>>

\* Lines 155 and 167-182: the operation of an admitted call rejects.
CBOperationFails(c) ==
    /\ cpc[c] = "inflight"
    /\ breaker' = AfterFailureOfCall(breaker, cbConfig, now)
    /\ cpc' = [cpc EXCEPT ![c] = "idle"]
    /\ cbAdmit' = [cbAdmit EXCEPT ![c] = "none"]
    /\ cbLast' = [caller |-> c, kind |-> "failed", admit |-> cbAdmit[c]]
    /\ streak' = streak + 1
    /\ UNCHANGED <<cbConfig, now, cbCalls, streakClean>>
    /\ UNCHANGED <<retryVars, batchVars, etlVars, valVars, connVars, procVars, statVars, qmVars, qcVars>>

\* The clock advances.
CBTick ==
    /\ now < MaxTime
    /\ now' = now + 1
    /\ UNCHANGED <<cbConfig, breaker, cpc, cbAdmit, cbCalls, cbLast, streak,
                   streakClean>>
    /\ UNCHANGED <<retryVars, batchVars, etlVars, valVars, connVars, procVars, statVars, qmVars, qcVars>>

\* resetCircuitBreaker (lines 235-243).
CBReset ==
    /\ breaker # NewBreaker
    /\ breaker' = NewBreaker
    /\ cbLast' = [caller |-> 0, kind |-> "reset", admit |-> "none"]
    /\ streak' = 0
    /\ streakClean' = TRUE
    /\ cbAdmit' = [c \in Callers |->
                     IF cpc[c] = "inflight" THEN "reset" ELSE cbAdmit[c]]
    /\ UNCHANGED <<cbConfig, now, cpc, cbCalls>>
    /\ UNCHANGED <<retryVars, batchVars, etlVars, valVars, connVars, procVars, statVars, qmVars, qcVars>>

(***************************************************************************)
(*                     StreamProcessor: batch path                         *)
(***************************************************************************)

\* Bounds of the stream-processor model.
MaxMsgs       == 3
MaxBatchSize  == 2
MaxHandlers   == 1
NumStartCalls == 1

\* handleBatchMessage, line 265: the batch size used when none is configured.
DefaultBatchSize == 100

StartCalls == 1..NumStartCalls
\* this.consumer: null, or the consumer a start() call created.
NoConsumer == <<>>
ConsumerOf(s) == <<s>>
\* The consumer of a start() call made before the modelled ones.
FirstConsumer == <<0>>

Range(f) == {f[i] : i \in DOMAIN f}

CountIn(q, m) == Cardinality({i \in DOMAIN q : q[i] = m})

RECURSIVE CountInBatches(_, _)
CountInBatches(bs, m) ==
    IF bs = <<>> THEN 0 ELSE CountIn(Head(bs).msgs, m) + CountInBatches(Tail(bs), m)

\* Line 265: batchSize || 100.
EffectiveBatchSize(cfg) ==
    IF cfg.batchSize = 0 THEN DefaultBatchSize ELSE cfg.batchSize

\* Line 265: the size trigger.
IsBatchFullStrict(buffer, cfg) == Len(buffer) > EffectiveBatchSize(cfg)

IsBatchFull(buffer, cfg) == Len(buffer) >= EffectiveBatchSize(cfg)

\* Line 271: the timer is armed only when none is set and a timeout is configured.
ShouldArmTimer(timer, cfg) == timer = "null" /\ cfg.batchTimeout # 0

\* processBatch, lines 283-284: the buffer after its content was taken.
BufferAfterFlushKeeps(buffer) == buffer

BufferAfterFlush(buffer) == <<>>

\* processBatch, lines 287-290: the timer handle after the flush.
TimerAfterFlush(timer) == "null"

\* processBatch, lines 279-290, entered by `by` ("size", "timer", "stop"): the
\* part that runs before the first await.  Yields the new buffer, timer and
\* list of batches.
FlushBufferDropsLast(buffer) == [i \in 1..(Len(buffer) - 1) |-> buffer[i]]

FlushBuffer(buffer) == [i \in 1..Len(buffer) |-> buffer[i]]

ProcessBatchEntry(buffer, timer, bs, by) ==
    IF Len(buffer) = 0
    THEN [buffer |-> buffer, timer |-> timer, batches |-> bs, began |-> FALSE]
    ELSE [buffer  |-> BufferAfterFlush(buffer),
          timer   |-> TimerAfterFlush(timer),
          batches |-> Append(bs, [msgs |-> FlushBuffer(buffer), results |-> <<>>,
                                  by |-> by, done |-> FALSE]),
          began   |-> TRUE]

\* updateStats, line 549, without the count of failures.
UpdateStatsFailedUncounted(st, ok) ==
    [messagesProcessed  |-> st.messagesProcessed + 1,
     messagesSuccessful |-> st.messagesSuccessful + (IF ok THEN 1 ELSE 0),
     messagesFailed     |-> st.messagesFailed]

\* updateStats over the results of one processed message.
UpdateStats(st, ok) ==
    [messagesProcessed  |-> st.messagesProcessed + 1,
     messagesSuccessful |-> st.messagesSuccessful + (IF ok THEN 1 ELSE 0),
     messagesFailed     |-> st.messagesFailed + (IF ok THEN 0 ELSE 1)]

RECURSIVE UpdateStatsAll(_, _)
UpdateStatsAll(st, results) ==
    IF results = <<>> THEN st
    ELSE UpdateStatsAll(UpdateStats(st, Head(results)), Tail(results))

\* One more updateStats call was made with the result of message m.
CountCall(calls, m) == [calls EXCEPT ![m] = @ + 1]

\* updateStats was called once with the result of each message of msgs.
RECURSIVE CountCalls(_, _)
CountCalls(calls, msgs) ==
    IF msgs = <<>> THEN calls
    ELSE CountCalls(CountCall(calls, Head(msgs)), Tail(msgs))

StatIdle == statCalls = [m \in 1..MaxMsgs |-> 0]

BatchInitValues ==
    /\ batchConfig \in [enabled : BOOLEAN,
                        batchSize : 0..MaxBatchSize,
                        batchTimeout : {0, 1}]
    /\ \/ /\ isRunning = FALSE           \* a processor just constructed
          /\ consumer = NoConsumer
          /\ liveConsumers = {}
       \/ /\ isRunning = TRUE            \* a processor an earlier start() left running
          /\ consumer = FirstConsumer
          /\ liveConsumers = {FirstConsumer}
    /\ batchBuffer = <<>>
    /\ batchTimer = "null"
    /\ batches = <<>>
    /\ handlers = {}
    /\ startPc = [s \in StartCalls |-> "idle"]
    /\ stopPc = "idle"
    /\ nextMsg = 1
    /\ stats = [messagesProcessed |-> 0, messagesSuccessful |-> 0,
                messagesFailed |-> 0]
    /\ pushed = {}

\* Two start() calls issued on a processor just constructed.
OverlappingStartCalls == {1, 2}

StartInitValues ==
    /\ batchConfig \in [enabled : BOOLEAN,
                        batchSize : 0..MaxBatchSize,
                        batchTimeout : {0, 1}]
    /\ isRunning = FALSE
    /\ consumer = NoConsumer
    /\ liveConsumers = {}
    /\ batchBuffer = <<>>
    /\ batchTimer = "null"
    /\ batches = <<>>
    /\ handlers = {}
    /\ startPc = [s \in OverlappingStartCalls |-> "idle"]
    /\ stopPc = "idle"
    /\ nextMsg = 1
    /\ stats = [messagesProcessed |-> 0, messagesSuccessful |-> 0,
                messagesFailed |-> 0]
    /\ pushed = {}

BatchIdle ==
    /\ batchConfig = [enabled |-> FALSE, batchSize |-> 0, batchTimeout |-> 0]
    /\ isRunning = FALSE
    /\ consumer = NoConsumer
    /\ batchBuffer = <<>>
    /\ batchTimer = "null"
    /\ batches = <<>>
    /\ handlers = {}
    /\ startPc = [s \in StartCalls |-> "idle"]
    /\ liveConsumers = {}
    /\ stopPc = "idle"
    /\ nextMsg = 1
    /\ stats = [messagesProcessed |-> 0, messagesSuccessful |-> 0,
                messagesFailed |-> 0]
    /\ pushed = {}

\* start(), line 104: the guard `if (this.isRunning) throw`.
StartAllowedAlways(running) == TRUE

StartAllowed(running) == ~running

\* start(), lines 104-110: the running check passes and createConsumer begins.
StartCall(s) ==
    /\ startPc[s] = "idle"
    /\ StartAllowed(isRunning)
    /\ startPc' = [startPc EXCEPT ![s] = "connecting"]
    /\ UNCHANGED <<batchConfig, isRunning, consumer, batchBuffer, batchTimer,
                   batches, handlers, liveConsumers, stopPc, nextMsg, stats,
                   pushed>>
    /\ UNCHANGED <<retryVars, cbVars, etlVars, valVars, connVars, procVars, statVars, qmVars, qcVars>>

\* start(), lines 104-106: the processor is already running.
StartRejected(s) ==
    /\ startPc[s] = "idle"
    /\ ~StartAllowed(isRunning)
    /\ startPc' = [startPc EXCEPT ![s] = "rejected"]
    /\ UNCHANGED <<batchConfig, isRunning, consumer, batchBuffer, batchTimer,
                   batches, handlers, liveConsumers, stopPc, nextMsg, stats,
                   pushed>>
    /\ UNCHANGED <<retryVars, cbVars, etlVars, valVars, connVars, procVars, statVars, qmVars, qcVars>>

\* start(), lines 110-129: the consumer is created, subscribed and run.
StartConsuming(s) ==
    /\ startPc[s] = "connecting"
    /\ consumer' = ConsumerOf(s)
    /\ liveConsumers' = liveConsumers \cup {ConsumerOf(s)}
    /\ startPc' = [startPc EXCEPT ![s] = "consuming"]
    /\ UNCHANGED <<batchConfig, isRunning, batchBuffer, batchTimer, batches,
                   handlers, stopPc, nextMsg, stats, pushed>>
    /\ UNCHANGED <<retryVars, cbVars, etlVars, valVars, connVars, procVars, statVars, qmVars, qcVars>>

\* start(), lines 131-135.
StartComplete(s) ==
    /\ startPc[s] = "consuming"
    /\ isRunning' = TRUE
    /\ startPc' = [startPc EXCEPT ![s] = "done"]
    /\ UNCHANGED <<batchConfig, consumer, batchBuffer, batchTimer, batches,
                   handlers, liveConsumers, stopPc, nextMsg, stats, pushed>>
    /\ UNCHANGED <<retryVars, cbVars, etlVars, valVars, connVars, procVars, statVars, qmVars, qcVars>>

CanDeliver ==
    /\ liveConsumers # {}
    /\ nextMsg <= MaxMsgs
    /\ Cardinality(handlers) < MaxHandlers

\* handleMessage, lines 220-223 and 245-258: the payload does not parse; the
\* failure is counted and the message is not buffered.
HandleMessageParseError ==
    /\ CanDeliver
    /\ nextMsg' = nextMsg + 1
    /\ stats' = UpdateStats(stats, FALSE)
    /\ UNCHANGED <<batchConfig, isRunning, consumer, batchBuffer, batchTimer,
                   batches, handlers, startPc, liveConsumers, stopPc, pushed>>
    /\ statCalls' = CountCall(statCalls, nextMsg)
    /\ UNCHANGED <<retryVars, cbVars, etlVars, valVars, connVars, procVars, qmVars, qcVars>>

\* handleMessage, lines 236-237, batch mode off: processMessage begins.
HandleMessageSingle ==
    /\ CanDeliver
    /\ ~batchConfig.enabled
    /\ nextMsg' = nextMsg + 1
    /\ handlers' = handlers \cup {[kind |-> "single", of |-> nextMsg]}
    /\ UNCHANGED <<batchConfig, isRunning, consumer, batchBuffer, batchTimer,
                   batches, startPc, liveConsumers, stopPc, stats, pushed>>
    /\ UNCHANGED <<retryVars, cbVars, etlVars, valVars, connVars, procVars, statVars, qmVars, qcVars>>

\* handleMessage, lines 237-243: processMessage resolved with a result.
HandleMessageSingleDone(h, ok) ==
    /\ h \in handlers
    /\ h.kind = "single"
    /\ handlers' = handlers \ {h}
    /\ stats' = UpdateStats(stats, ok)
    /\ UNCHANGED <<batchConfig, isRunning, consumer, batchBuffer, batchTimer,
                   batches, startPc, liveConsumers, stopPc, nextMsg, pushed>>
    /\ statCalls' = CountCall(statCalls, h.of)
    /\ UNCHANGED <<retryVars, cbVars, etlVars, valVars, connVars, procVars, qmVars, qcVars>>

\* handleMessage, lines 231-233, and handleBatchMessage, lines 261-276.
HandleBatchMessage ==
    /\ CanDeliver
    /\ batchConfig.enabled
    /\ nextMsg' = nextMsg + 1
    /\ pushed' = pushed \cup {nextMsg}
    /\ LET buffer == Append(batchBuffer, nextMsg)
       IN  IF IsBatchFull(buffer, batchConfig)
           THEN LET e == ProcessBatchEntry(buffer, batchTimer, batches, "size")
                IN  /\ batchBuffer' = e.buffer
                    /\ batchTimer' = e.timer
                    /\ batches' = e.batches
                    /\ handlers' = handlers \cup
                                     {[kind |-> "batch", of |-> Len(e.batches)]}
           ELSE /\ batchBuffer' = buffer
                /\ batchTimer' = IF ShouldArmTimer(batchTimer, batchConfig)
                                 THEN "armed" ELSE batchTimer
                /\ UNCHANGED <<batches, handlers>>
    /\ UNCHANGED <<batchConfig, isRunning, consumer, startPc, liveConsumers,
                   stopPc, stats>>
    /\ UNCHANGED <<retryVars, cbVars, etlVars, valVars, connVars, procVars, statVars, qmVars, qcVars>>

\* The setTimeout callback of lines 272-274 runs processBatch.
BatchTimerFires ==
    /\ batchTimer = "armed"
    /\ LET e == ProcessBatchEntry(batchBuffer, "fired", batches, "timer")
       IN  /\ batchBuffer' = e.buffer
           /\ batchTimer' = e.timer
           /\ batches' = e.batches
    /\ UNCHANGED <<batchConfig, isRunning, consumer, handlers, startPc,
                   liveConsumers, stopPc, nextMsg, stats, pushed>>
    /\ UNCHANGED <<retryVars, cbVars, etlVars, valVars, connVars, procVars, statVars, qmVars, qcVars>>

\* processBatch, lines 292-311: processMessage has resolved for every message
\* of batch j, with the given results (processMessage never rejects); the
\* statistics are updated once per result and the caller that awaited the
\* batch continues.
ProcessBatchCompletes(j, results) ==
    /\ j \in DOMAIN batches
    /\ ~batches[j].done
    /\ Len(results) = Len(batches[j].msgs)
    /\ batches' = [batches EXCEPT ![j].results = results, ![j].done = TRUE]
    /\ stats' = UpdateStatsAll(stats, results)
    /\ handlers' = handlers \ {[kind |-> "batch", of |-> j]}
    /\ UNCHANGED <<batchConfig, isRunning, consumer, batchBuffer, batchTimer,
                   startPc, liveConsumers, stopPc, nextMsg, pushed>>
    /\ statCalls' = CountCalls(statCalls, batches[j].msgs)
    /\ UNCHANGED <<retryVars, cbVars, etlVars, valVars, connVars, procVars, qmVars, qcVars>>

\* stop(), lines 150-158: the processor runs; a non-empty buffer is flushed
\* and awaited.
StopCallDrains ==
    /\ stopPc = "idle"
    /\ isRunning
    /\ Len(batchBuffer) > 0
    /\ LET e == ProcessBatchEntry(batchBuffer, batchTimer, batches, "stop")
       IN  /\ batchBuffer' = e.buffer
           /\ batchTimer' = e.timer
           /\ batches' = e.batches
    /\ stopPc' = "draining"
    /\ UNCHANGED <<batchConfig, isRunning, consumer, handlers, startPc,
                   liveConsumers, nextMsg, stats, pushed>>
    /\ UNCHANGED <<retryVars, cbVars, etlVars, valVars, connVars, procVars, statVars, qmVars, qcVars>>

\* stop(), lines 160-170: the timer is cleared and the consumer is told to
\* disconnect; it delivers no further message.
StopDisconnects ==
    /\ \/ stopPc = "idle" /\ isRunning /\ Len(batchBuffer) = 0
       \/ /\ stopPc = "draining"
          /\ \A j \in DOMAIN batches : batches[j].by = "stop" => batches[j].done
    /\ batchTimer' = "null"
    /\ liveConsumers' = liveConsumers \ {consumer}
    /\ stopPc' = "disconnecting"
    /\ UNCHANGED <<batchConfig, isRunning, consumer, batchBuffer, batches,
                   handlers, startPc, nextMsg, stats, pushed>>
    /\ UNCHANGED <<retryVars, cbVars, etlVars, valVars, connVars, procVars, statVars, qmVars, qcVars>>

\* stop(), lines 169-175: disconnect resolved.
StopComplete ==
    /\ stopPc = "disconnecting"
    /\ consumer' = NoConsumer
    /\ isRunning' = FALSE
    /\ stopPc' = "idle"
    /\ UNCHANGED <<batchConfig, batchBuffer, batchTimer, batches, handlers,
                   startPc, liveConsumers, nextMsg, stats, pushed>>
    /\ UNCHANGED <<retryVars, cbVars, etlVars, valVars, connVars, procVars, statVars, qmVars, qcVars>>

\* The results processMessage can give for a batch of n messages.
ResultsOf(n) == [1..n -> BOOLEAN]

HandleMessageSingleResolves ==
    \E h \in handlers, ok \in BOOLEAN : HandleMessageSingleDone(h, ok)

ProcessBatchResolves ==
    \E j \in DOMAIN batches :
        \E results \in ResultsOf(Len(batches[j].msgs)) :
            ProcessBatchCompletes(j, results)

(***************************************************************************)
(*                         ETLPipelineService                              *)
(***************************************************************************)

\* Bounds of the ETL model.
MaxExecs   == 2      \* executeJob calls
MaxRecords == 2      \* records the source holds
MaxRows    == 2      \* rows per key the table holds initially
MaxLimit   == 3      \* the limit passed to getJobHistory

Execs == 1..MaxExecs

\* The job id all calls are about; the maps of the service are keyed by it.
JobId == "job"

\* Key-column values of a record (destination.keyColumns || ['id'], line 546).
Keys == {"k1", "k2"}

\* A record: its key-column values and what validateRecord says of it.
Records == [key : Keys, valid : BOOLEAN]

Datasets(n) == UNION {[1..k -> Records] : k \in 0..n}

\* Map.set and Map.delete on a map held as a function.
MapSet(map, k, v) == [x \in DOMAIN map \cup {k} |-> IF x = k THEN v ELSE map[x]]

MapDelete(map, k) == [x \in DOMAIN map \ {k} |-> map[x]]

EmptyMap == [x \in {} |-> 0]

\* applyFilterTransformation, lines 373-402, for one condition
\* {field: key, operator: 'not_equals', value: 'k1'}.
RECURSIVE ApplyFilterTransformation(_)
ApplyFilterTransformation(data) ==
    IF data = <<>> THEN <<>>
    ELSE IF Head(data).key = "k1"
         THEN ApplyFilterTransformation(Tail(data))
         ELSE <<Head(data)>> \o ApplyFilterTransformation(Tail(data))

\* transformData, lines 332-355, when no step throws; a custom step without a
\* transform function gives the data back (line 465).
RECURSIVE TransformData(_, _)
TransformData(data, transformations) ==
    IF transformations = <<>> THEN data
    ELSE TransformData(IF Head(transformations) = "filter"
                       THEN ApplyFilterTransformation(data)
                       ELSE data,
                       Tail(transformations))

\* validateData, lines 485-506: what the switch on onFailure does with a
\* record that failed validation.
OnInvalidStopSkips(onFailure, r) ==
    [r EXCEPT !.skippedCount = @ + 1]

OnInvalidUncounted(onFailure, r) ==
    IF onFailure = "stop" THEN [r EXCEPT !.threw = TRUE] ELSE r

OnInvalid(onFailure, r) ==
    IF onFailure = "skip" THEN [r EXCEPT !.skippedCount = @ + 1]
    ELSE IF onFailure = "stop" THEN [r EXCEPT !.threw = TRUE]
    ELSE IF onFailure = "quarantine" THEN [r EXCEPT !.failedCount = @ + 1]
    ELSE r

\* validateData, lines 468-515, as a left-to-right pass over data; r is the
\* result so far.  A throw ends the pass.
RECURSIVE ValidateDataFrom(_, _, _)
ValidateDataFrom(data, onFailure, r) ==
    IF data = <<>> \/ r.threw THEN r
    ELSE ValidateDataFrom(Tail(data), onFailure,
            IF Head(data).valid
            THEN [r EXCEPT !.validData = Append(@, Head(data))]
            ELSE OnInvalid(onFailure, r))

ValidateData(data, onFailure) ==
    ValidateDataFrom(data, onFailure,
                     [validData |-> <<>>, skippedCount |-> 0,
                      failedCount |-> 0, threw |-> FALSE])

\* loadData, lines 531-540 and 587-596: one INSERT.
InsertRecord(record, acc) ==
    [acc EXCEPT !.inserted = @ + 1, !.rows[record.key] = @ + 1]

\* loadData, lines 545-580: one record in upsert mode.  The UPDATE rewrites
\* every row that has the key values and adds none.
UpsertRecordAlwaysInserts(record, acc) == InsertRecord(record, acc)

UpsertRecord(record, acc) ==
    IF acc.rows[record.key] > 0
    THEN [acc EXCEPT !.updated = @ + 1]
    ELSE InsertRecord(record, acc)

RECURSIVE LoadRecords(_, _, _)
LoadRecords(data, mode, acc) ==
    IF data = <<>> THEN acc
    ELSE LoadRecords(Tail(data), mode,
                     IF mode = "upsert" THEN UpsertRecord(Head(data), acc)
                     ELSE InsertRecord(Head(data), acc))

\* loadData, lines 517-601, when no statement fails: the counts it returns and
\* the rows the transaction then sees.
LoadData(data, mode, rows) ==
    LoadRecords(data, mode,
                [inserted |-> 0, updated |-> 0,
                 rows |-> IF mode = "replace" THEN [k \in Keys |-> 0] ELSE rows])

\* Array.prototype.slice(start) on a sequence of length n.
JsSlice(arr, start) ==
    LET n    == Len(arr)
        from == IF start < 0
                THEN (IF n + start < 0 THEN 0 ELSE n + start)
                ELSE (IF start > n THEN n ELSE start)
    IN  [i \in 1..(n - from) |-> arr[from + i]]

\* getJobHistory, lines 269-272.
GetJobHistory(history, jobId, limit) ==
    JsSlice(IF jobId \in DOMAIN history THEN history[jobId] ELSE <<>>, -limit)

\* The job configurations: destination.mode, the transformation steps, the
\* validation gate (enabled, onFailure) and schedule.enabled with an interval.
Modes == {"insert", "upsert", "replace"}

Transformations == {<<>>, <<"filter">>, <<"custom">>}

Validations == [enabled : {FALSE}, onFailure : {"skip"}]
                   \cup [enabled : {TRUE}, onFailure : {"skip", "stop", "quarantine"}]

ETLConfigs == [mode : Modes, transformations : Transformations,
               validation : Validations, schedule : BOOLEAN]

NoLocals ==
    [processedData |-> <<>>, recordsProcessed |-> 0, recordsSkipped |-> 0,
     recordsFailed |-> 0, inserted |-> 0, updated |-> 0,
     rows |-> [k \in Keys |-> 0], error |-> "none"]

NoResult == [kind |-> "none", error |-> "none"]

\* The state of a service on which registerJob(etlConfig) was called.
ETLRegistered ==
    /\ jobs = {JobId}
    /\ scheduledJobs = IF etlConfig.schedule THEN {JobId} ELSE {}
    /\ runningJobs = EmptyMap
    /\ jobHistory = EmptyMap
    /\ epc = [e \in Execs |-> "idle"]
    /\ jobStatus = [e \in Execs |-> "pending"]
    /\ txnLog = [e \in Execs |-> <<>>]
    /\ locals = [e \in Execs |-> NoLocals]
    /\ eres = [e \in Execs |-> NoResult]
    /\ returned = [limit |-> 0, result |-> <<>>]

\* Overlapping calls on one scheduled job: an upsert job with a custom step
\* and a validation gate that stops, over a source of at most one record and
\* an empty table.
ETLInitValues ==
    /\ etlConfig = [mode |-> "upsert", transformations |-> <<"custom">>,
                    validation |-> [enabled |-> TRUE, onFailure |-> "stop"],
                    schedule |-> TRUE]
    /\ sourceData \in {d \in Datasets(1) : \A i \in DOMAIN d : d[i].key = "k1"}
    /\ table = [k \in Keys |-> 0]
    /\ ETLRegistered

\* One call on every configuration, source and table.
ETLRunInitValues ==
    /\ etlConfig \in {c \in ETLConfigs : ~c.schedule}
    /\ sourceData \in Datasets(MaxRecords)
    /\ table \in [Keys -> 0..MaxRows]
    /\ ETLRegistered

ETLIdle ==
    /\ etlConfig = [mode |-> "insert", transformations |-> <<>>,
                    validation |-> [enabled |-> FALSE, onFailure |-> "skip"],
                    schedule |-> FALSE]
    /\ sourceData = <<>>
    /\ table = [k \in Keys |-> 0]
    /\ ETLRegistered

\* jobHistory after lines 212-215 / 247-250 pushed result.
PushHistory(history, jobId, result) ==
    MapSet(history, jobId,
           Append(IF jobId \in DOMAIN history THEN history[jobId] ELSE <<>>,
                  result))

\* The ETLJobResult of lines 196-209.
SuccessResult(e) ==
    [exec |-> e, success |-> TRUE,
     recordsProcessed |-> locals[e].recordsProcessed,
     recordsInserted  |-> locals[e].inserted,
     recordsUpdated   |-> locals[e].updated,
     recordsSkipped   |-> locals[e].recordsSkipped,
     recordsFailed    |-> locals[e].recordsFailed,
     error |-> "none"]

\* The ETLJobResult of lines 231-244.
FailedResult(e, error) ==
    [exec |-> e, success |-> FALSE, recordsProcessed |-> 0,
     recordsInserted |-> 0, recordsUpdated |-> 0, recordsSkipped |-> 0,
     recordsFailed |-> 0, error |-> error]

\* executeJob, lines 107-110: no configuration under the job id.
ExecuteJobNotFound(e) ==
    /\ epc[e] = "idle"
    /\ JobId \notin jobs
    /\ epc' = [epc EXCEPT ![e] = "rejected"]
    /\ eres' = [eres EXCEPT ![e] = [kind |-> "thrown", error |-> "not found"]]
    /\ UNCHANGED <<etlConfig, sourceData, table, jobs, runningJobs, jobHistory,
                   scheduledJobs, jobStatus, txnLog, locals, returned>>
    /\ UNCHANGED <<retryVars, cbVars, batchVars, valVars, connVars, procVars, statVars, qmVars, qcVars>>

\* executeJob, line 113: the guard on runningJobs.
IsAlreadyRunning(running, jobId) == jobId \in DOMAIN running

\* executeJob, lines 112-115.
ExecuteJobAlreadyRunning(e) ==
    /\ epc[e] = "idle"
    /\ JobId \in jobs
    /\ IsAlreadyRunning(runningJobs, JobId)
    /\ epc' = [epc EXCEPT ![e] = "rejected"]
    /\ eres' = [eres EXCEPT ![e] = [kind |-> "thrown",
                                    error |-> "already running"]]
    /\ UNCHANGED <<etlConfig, sourceData, table, jobs, runningJobs, jobHistory,
                   scheduledJobs, jobStatus, txnLog, locals, returned>>
    /\ UNCHANGED <<retryVars, cbVars, batchVars, valVars, connVars, procVars, statVars, qmVars, qcVars>>

\* executeJob, lines 117-133: both checks pass; the status object is put in
\* runningJobs and sequelize.transaction() is called.
ExecuteJobStarts(e) ==
    /\ epc[e] = "idle"
    /\ JobId \in jobs
    /\ ~IsAlreadyRunning(runningJobs, JobId)
    /\ jobStatus' = [jobStatus EXCEPT ![e] = "running"]
    /\ runningJobs' = MapSet(runningJobs, JobId, e)
    /\ epc' = [epc EXCEPT ![e] = "opening"]
    /\ UNCHANGED <<etlConfig, sourceData, table, jobs, jobHistory,
                   scheduledJobs, txnLog, locals, eres, returned>>
    /\ UNCHANGED <<retryVars, cbVars, batchVars, valVars, connVars, procVars, statVars, qmVars, qcVars>>

\* An executeJob call, made by a caller.
ExecuteJob(e) ==
    \/ ExecuteJobNotFound(e)
    \/ ExecuteJobAlreadyRunning(e)
    \/ ExecuteJobStarts(e)

\* The setInterval callback of lines 609-615 calls executeJob.
ScheduledTrigger(e) ==
    /\ JobId \in scheduledJobs
    /\ ExecuteJob(e)

\* executeJob, lines 222-226: the catch block is entered with `error` while
\* the local transaction is set; rollback() is called.
EnterCatch(e, error) ==
    /\ locals' = [locals EXCEPT ![e].error = error]
    /\ epc' = [epc EXCEPT ![e] = "rollingBack"]

\* executeJob, lines 228-255: the job is marked failed, the failed result is
\* stored and the error rethrown.
FailJob(e, error) ==
    /\ jobStatus' = [jobStatus EXCEPT ![e] = "failed"]
    /\ jobHistory' = PushHistory(jobHistory, JobId, FailedResult(e, error))
    /\ runningJobs' = MapDelete(runningJobs, JobId)
    /\ eres' = [eres EXCEPT ![e] = [kind |-> "thrown", error |-> error]]
    /\ epc' = [epc EXCEPT ![e] = "done"]

\* executeJob, line 133: the transaction is open; extractData is called.
TransactionOpens(e) ==
    /\ epc[e] = "opening"
    /\ txnLog' = [txnLog EXCEPT ![e] = Append(@, "begin")]
    /\ locals' = [locals EXCEPT ![e].rows = table]
    /\ epc' = [epc EXCEPT ![e] = "extracting"]
    /\ UNCHANGED <<etlConfig, sourceData, table, jobs, runningJobs, jobHistory,
                   scheduledJobs, jobStatus, eres, returned>>
    /\ UNCHANGED <<retryVars, cbVars, batchVars, valVars, connVars, procVars, statVars, qmVars, qcVars>>

\* executeJob, line 133 rejects: the catch block runs with no transaction.
TransactionFails(e) ==
    /\ epc[e] = "opening"
    /\ FailJob(e, "transaction")
    /\ UNCHANGED <<etlConfig, sourceData, table, jobs, scheduledJobs, txnLog,
                   locals, returned>>
    /\ UNCHANGED <<retryVars, cbVars, batchVars, valVars, connVars, procVars, statVars, qmVars, qcVars>>

\* executeJob, lines 140-153: extraction gave the source's records;
\* transformData is called.
ExtractSucceeds(e) ==
    /\ epc[e] = "extracting"
    /\ locals' = [locals EXCEPT ![e].processedData = sourceData,
                                ![e].recordsProcessed = Len(sourceData)]
    /\ epc' = [epc EXCEPT ![e] = "transforming"]
    /\ UNCHANGED <<etlConfig, sourceData, table, jobs, runningJobs, jobHistory,
                   scheduledJobs, jobStatus, txnLog, eres, returned>>
    /\ UNCHANGED <<retryVars, cbVars, batchVars, valVars, connVars, procVars, statVars, qmVars, qcVars>>

\* executeJob, lines 140-143: extraction rejected or gave success = false.
ExtractFails(e) ==
    /\ epc[e] = "extracting"
    /\ EnterCatch(e, "extraction")
    /\ UNCHANGED <<etlConfig, sourceData, table, jobs, runningJobs, jobHistory,
                   scheduledJobs, jobStatus, txnLog, eres, returned>>
    /\ UNCHANGED <<retryVars, cbVars, batchVars, valVars, connVars, procVars, statVars, qmVars, qcVars>>

\* executeJob, lines 153-184: the transformations are applied; validateData
\* is called when the gate is enabled, loadData otherwise.
Transform(e) ==
    /\ epc[e] = "transforming"
    /\ locals' = [locals EXCEPT ![e].processedData =
                        TransformData(@, etlConfig.transformations)]
    /\ epc' = [epc EXCEPT ![e] = IF etlConfig.validation.enabled
                                 THEN "validating" ELSE "loading"]
    /\ UNCHANGED <<etlConfig, sourceData, table, jobs, runningJobs, jobHistory,
                   scheduledJobs, jobStatus, txnLog, eres, returned>>
    /\ UNCHANGED <<retryVars, cbVars, batchVars, valVars, connVars, procVars, statVars, qmVars, qcVars>>

\* transformData, line 347 (462): the function of a custom step throws.
TransformThrows(e) ==
    /\ epc[e] = "transforming"
    /\ \E i \in DOMAIN etlConfig.transformations :
            etlConfig.transformations[i] = "custom"
    /\ EnterCatch(e, "transformation")
    /\ UNCHANGED <<etlConfig, sourceData, table, jobs, runningJobs, jobHistory,
                   scheduledJobs, jobStatus, txnLog, eres, returned>>
    /\ UNCHANGED <<retryVars, cbVars, batchVars, valVars, connVars, procVars, statVars, qmVars, qcVars>>

\* executeJob, lines 166-184, and validateData: the gate passes the valid
\* records on to loadData, or throws.
Validate(e) ==
    /\ epc[e] = "validating"
    /\ LET v == ValidateData(locals[e].processedData,
                             etlConfig.validation.onFailure)
       IN  IF v.threw
           THEN EnterCatch(e, "validation")
           ELSE /\ locals' = [locals EXCEPT
                                ![e].processedData = v.validData,
                                ![e].recordsSkipped = v.skippedCount,
                                ![e].recordsFailed = v.failedCount]
                /\ epc' = [epc EXCEPT ![e] = "loading"]
    /\ UNCHANGED <<etlConfig, sourceData, table, jobs, runningJobs, jobHistory,
                   scheduledJobs, jobStatus, txnLog, eres, returned>>
    /\ UNCHANGED <<retryVars, cbVars, batchVars, valVars, connVars, procVars, statVars, qmVars, qcVars>>

\* executeJob, lines 184-187: every statement of loadData succeeded; commit()
\* is called.
Load(e) ==
    /\ epc[e] = "loading"
    /\ LET l == LoadData(locals[e].processedData, etlConfig.mode,
                         locals[e].rows)
       IN  locals' = [locals EXCEPT ![e].inserted = l.inserted,
                                    ![e].updated = l.updated,
                                    ![e].rows = l.rows]
    /\ epc' = [epc EXCEPT ![e] = "committing"]
    /\ UNCHANGED <<etlConfig, sourceData, table, jobs, runningJobs, jobHistory,
                   scheduledJobs, jobStatus, txnLog, eres, returned>>
    /\ UNCHANGED <<retryVars, cbVars, batchVars, valVars, connVars, procVars, statVars, qmVars, qcVars>>

\* loadData: a statement it issued was rejected.
LoadFails(e) ==
    /\ epc[e] = "loading"
    /\ locals[e].processedData # <<>> \/ etlConfig.mode = "replace"
    /\ EnterCatch(e, "load")
    /\ UNCHANGED <<etlConfig, sourceData, table, jobs, runningJobs, jobHistory,
                   scheduledJobs, jobStatus, txnLog, eres, returned>>
    /\ UNCHANGED <<retryVars, cbVars, batchVars, valVars, connVars, procVars, statVars, qmVars, qcVars>>

\* executeJob, lines 187-220: commit() resolved; the rows written under the
\* transaction become the table's, the job is marked completed, the result is
\* stored and returned.
CommitSucceeds(e) ==
    /\ epc[e] = "committing"
    /\ txnLog' = [txnLog EXCEPT ![e] = Append(@, "commit")]
    /\ table' = locals[e].rows
    /\ jobStatus' = [jobStatus EXCEPT ![e] = "completed"]
    /\ jobHistory' = PushHistory(jobHistory, JobId, SuccessResult(e))
    /\ runningJobs' = MapDelete(runningJobs, JobId)
    /\ eres' = [eres EXCEPT ![e] = [kind |-> "returned", error |-> "none"]]
    /\ epc' = [epc EXCEPT ![e] = "done"]
    /\ UNCHANGED <<etlConfig, sourceData, jobs, scheduledJobs, locals,
                   returned>>
    /\ UNCHANGED <<retryVars, cbVars, batchVars, valVars, connVars, procVars, statVars, qmVars, qcVars>>

\* executeJob, line 187 rejects: the local transaction is still set when the
\* catch block runs (line 188 was not reached), so rollback() is called.
CommitFails(e) ==
    /\ epc[e] = "committing"
    /\ txnLog' = [txnLog EXCEPT ![e] = Append(@, "commit failed")]
    /\ EnterCatch(e, "commit")
    /\ UNCHANGED <<etlConfig, sourceData, table, jobs, runningJobs, jobHistory,
                   scheduledJobs, jobStatus, eres, returned>>
    /\ UNCHANGED <<retryVars, cbVars, batchVars, valVars, connVars, procVars, statVars, qmVars, qcVars>>

\* executeJob, lines 225-255: rollback() resolved.
RollbackSucceeds(e) ==
    /\ epc[e] = "rollingBack"
    /\ txnLog' = [txnLog EXCEPT ![e] = Append(@, "rollback")]
    /\ FailJob(e, locals[e].error)
    /\ UNCHANGED <<etlConfig, sourceData, table, jobs, scheduledJobs, locals,
                   returned>>
    /\ UNCHANGED <<retryVars, cbVars, batchVars, valVars, connVars, procVars, statVars, qmVars, qcVars>>

\* executeJob, line 225 rejects, as rollback() does on a transaction that the
\* commit() of line 187 already finished: the rejection leaves the catch
\* block, and lines 228-255 do not run.
RollbackFails(e) ==
    /\ epc[e] = "rollingBack"
    /\ locals[e].error = "commit"
    /\ txnLog' = [txnLog EXCEPT ![e] = Append(@, "rollback failed")]
    /\ eres' = [eres EXCEPT ![e] = [kind |-> "thrown", error |-> "rollback"]]
    /\ epc' = [epc EXCEPT ![e] = "done"]
    /\ UNCHANGED <<etlConfig, sourceData, table, jobs, runningJobs, jobHistory,
                   scheduledJobs, jobStatus, locals, returned>>
    /\ UNCHANGED <<retryVars, cbVars, batchVars, valVars, connVars, procVars, statVars, qmVars, qcVars>>

\* cancelJob, lines 277-288, what it does to the status objects and the map;
\* it runs to its end without awaiting.
StatusAfterCancel(status, running, jobId) ==
    IF jobId \in DOMAIN running
    THEN [status EXCEPT ![running[jobId]] = "cancelled"]
    ELSE status

\* cancelJob on a job that runningJobs holds.
CancelJob ==
    /\ JobId \in DOMAIN runningJobs
    /\ jobStatus' = StatusAfterCancel(jobStatus, runningJobs, JobId)
    /\ runningJobs' = MapDelete(runningJobs, JobId)
    /\ UNCHANGED <<etlConfig, sourceData, table, jobs, jobHistory,
                   scheduledJobs, epc, txnLog, locals, eres, returned>>
    /\ UNCHANGED <<retryVars, cbVars, batchVars, valVars, connVars, procVars, statVars, qmVars, qcVars>>

\* removeJob, lines 300-318.
RemoveJob ==
    /\ JobId \in jobs
    /\ jobStatus' = StatusAfterCancel(jobStatus, runningJobs, JobId)
    /\ runningJobs' = MapDelete(runningJobs, JobId)
    /\ scheduledJobs' = scheduledJobs \ {JobId}
    /\ jobs' = jobs \ {JobId}
    /\ UNCHANGED <<etlConfig, sourceData, table, jobHistory, epc, txnLog,
                   locals, eres, returned>>
    /\ UNCHANGED <<retryVars, cbVars, batchVars, valVars, connVars, procVars, statVars, qmVars, qcVars>>

\* registerJob, lines 92-101, of the configuration under an id that is not
\* registered.
RegisterJob ==
    /\ JobId \notin jobs
    /\ jobs' = jobs \cup {JobId}
    /\ scheduledJobs' = IF etlConfig.schedule
                        THEN scheduledJobs \cup {JobId} ELSE scheduledJobs
    /\ UNCHANGED <<etlConfig, sourceData, table, runningJobs, jobHistory, epc,
                   jobStatus, txnLog, locals, eres, returned>>
    /\ UNCHANGED <<retryVars, cbVars, batchVars, valVars, connVars, procVars, statVars, qmVars, qcVars>>

\* A getJobHistory(jobId, limit) call.
GetJobHistoryCall(limit) ==
    /\ returned' = [limit |-> limit,
                    result |-> GetJobHistory(jobHistory, JobId, limit)]
    /\ UNCHANGED <<etlConfig, sourceData, table, jobs, runningJobs, jobHistory,
                   scheduledJobs, epc, jobStatus, txnLog, locals, eres>>
    /\ UNCHANGED <<retryVars, cbVars, batchVars, valVars, connVars, procVars, statVars, qmVars, qcVars>>

(***************************************************************************)
(*                        DataValidationService                            *)
(***************************************************************************)

\* Bound of the validation model: the length of a rule list.
MaxRules == 2

\* JavaScript values: t is the value's kind, s the characters of a string, n
\* the number of a number (true is held as the boolean of n = 1).
JsValue(t, str, n) == [t |-> t, s |-> str, n |-> n]

JsNull      == JsValue("null", <<>>, 0)
JsUndefined == JsValue("undefined", <<>>, 0)
JsString(str) == JsValue("string", str, 0)
JsNumber(n) == JsValue("number", <<>>, n)
JsTrue      == JsValue("boolean", <<>>, 1)

Values == {JsNull, JsUndefined, JsString(<<>>), JsString(<<"a">>),
           JsString(<<"1", "2">>), JsNumber(5), JsNumber(12), JsTrue}

\* The fields a record has; a field the record lacks reads as undefined.
Fields == {"name", "age"}

ValidationRecords == [Fields -> Values]

\* typeof value.
TypeOf(value) == IF value.t = "null" THEN "object" ELSE value.t

\* value == null.
IsNullish(value) == value.t \in {"null", "undefined"}

DigitOf(ch) ==
    IF ch = "0" THEN 0 ELSE IF ch = "1" THEN 1 ELSE IF ch = "2" THEN 2
    ELSE IF ch = "3" THEN 3 ELSE IF ch = "4" THEN 4 ELSE IF ch = "5" THEN 5
    ELSE IF ch = "6" THEN 6 ELSE IF ch = "7" THEN 7 ELSE IF ch = "8" THEN 8
    ELSE IF ch = "9" THEN 9 ELSE -1

Digits == <<"0", "1", "2", "3", "4", "5", "6", "7", "8", "9">>

\* Number(value) of a string of digits read so far as acc; nan when a
\* character is no digit.
RECURSIVE ParseDigits(_, _)
ParseDigits(str, acc) ==
    IF str = <<>> THEN [nan |-> FALSE, n |-> acc]
    ELSE IF DigitOf(Head(str)) < 0 THEN [nan |-> TRUE, n |-> 0]
    ELSE ParseDigits(Tail(str), 10 * acc + DigitOf(Head(str)))

\* Number(value): the empty string gives 0, null gives 0, true gives 1,
\* undefined and a string that is no numeral give NaN.
ToNumber(value) ==
    IF value.t = "number" \/ value.t = "boolean" THEN [nan |-> FALSE, n |-> value.n]
    ELSE IF value.t = "string" THEN ParseDigits(value.s, 0)
    ELSE IF value.t = "null" THEN [nan |-> FALSE, n |-> 0]
    ELSE [nan |-> TRUE, n |-> 0]

\* The decimal numeral of a natural number.
RECURSIVE NumeralOf(_)
NumeralOf(n) ==
    IF n < 10 THEN <<Digits[n + 1]>>
    ELSE NumeralOf(n \div 10) \o <<Digits[(n % 10) + 1]>>

\* String(value), for a value that is not nullish.
JsToString(value) ==
    IF value.t = "string" THEN value.s
    ELSE IF value.t = "number" THEN NumeralOf(value.n)
    ELSE <<"t", "r", "u", "e">>

\* The rules: the field, the rule type and, in cfg, config.type of a type
\* rule or config.validator of a custom rule; range rules have config
\* {min: 6, max: 10}, length rules {min: 1, max: 1}.
RangeMin == 6
RangeMax == 10
LengthMin == 1
LengthMax == 1

RuleKinds == {[type |-> "required", cfg |-> "none"],
              [type |-> "type", cfg |-> "number"],
              [type |-> "type", cfg |-> "string"],
              [type |-> "type", cfg |-> "boolean"],
              [type |-> "range", cfg |-> "none"],
              [type |-> "length", cfg |-> "none"],
              [type |-> "custom", cfg |-> "isNumber"],
              [type |-> "custom", cfg |-> "missing"]}

ValidationRules == [field : Fields, type : {k.type : k \in RuleKinds},
                    cfg : {k.cfg : k \in RuleKinds}]

RuleLists(n) ==
    UNION {[1..k -> {r \in ValidationRules :
                        [type |-> r.type, cfg |-> r.cfg] \in RuleKinds}]
           : k \in 0..n}

\* customValidators: one validator is registered, under "isNumber".
CustomValidators == {"isNumber"}

CustomValidatorAccepts(name, value) == value.t = "number"

NoCleaned == [defined |-> FALSE, value |-> JsUndefined]

Cleaned(value) == [defined |-> TRUE, value |-> value]

FieldResult(errors, warnings, cleaned) ==
    [isValid |-> errors = <<>>, errors |-> errors, warnings |-> warnings,
     cleanedData |-> cleaned]

\* validateField, lines 306-310.
RequiredViolatedNullOnly(value) == IsNullish(value)

RequiredViolated(value) == IsNullish(value) \/ value = JsString(<<>>)

\* validateField, lines 312-328.
ValidateType(value, rule) ==
    IF ~IsNullish(value) /\ TypeOf(value) # rule.cfg
    THEN IF rule.cfg = "number" /\ ~ToNumber(value).nan
         THEN FieldResult(<<>>, <<[field |-> rule.field, type |-> "converted"]>>,
                          Cleaned(JsNumber(ToNumber(value).n)))
         ELSE IF rule.cfg = "string"
         THEN FieldResult(<<>>, <<[field |-> rule.field, type |-> "converted"]>>,
                          Cleaned(JsString(JsToString(value))))
         ELSE FieldResult(<<[field |-> rule.field, type |-> "type"]>>, <<>>,
                          NoCleaned)
    ELSE FieldResult(<<>>, <<>>, NoCleaned)

\* validateField, lines 330-339 and 356-365: the errors of a min / max pair.
MinMaxErrors(n, min, max, rule) ==
    (IF n < min THEN <<[field |-> rule.field, type |-> "min"]>> ELSE <<>>)
    \o (IF n > max THEN <<[field |-> rule.field, type |-> "max"]>> ELSE <<>>)

\* validateField, lines 299-389.
ValidateField(value, rule) ==
    IF rule.type = "required"
    THEN FieldResult(IF RequiredViolated(value)
                     THEN <<[field |-> rule.field, type |-> "required"]>>
                     ELSE <<>>, <<>>, NoCleaned)
    ELSE IF rule.type = "type" THEN ValidateType(value, rule)
    ELSE IF rule.type = "range"
    THEN FieldResult(IF value.t = "number"
                     THEN MinMaxErrors(value.n, RangeMin, RangeMax, rule)
                     ELSE <<>>, <<>>, NoCleaned)
    ELSE IF rule.type = "length"
    THEN FieldResult(IF value.t = "string"
                     THEN MinMaxErrors(Len(value.s), LengthMin, LengthMax, rule)
                     ELSE <<>>, <<>>, NoCleaned)
    ELSE IF rule.type = "custom"
    THEN FieldResult(IF rule.cfg \in CustomValidators
                     THEN IF CustomValidatorAccepts(rule.cfg, value) THEN <<>>
                          ELSE <<[field |-> rule.field, type |-> "custom"]>>
                     ELSE <<[field |-> rule.field, type |-> "not found"]>>,
                     <<>>, NoCleaned)
    ELSE FieldResult(<<>>, <<>>, NoCleaned)

\* validateRecord, lines 71-87: the pass over the rules; acc holds errors,
\* warnings and the cleanedData copy so far.
RECURSIVE ValidateRules(_, _, _)
ValidateRules(record, rules, acc) ==
    IF rules = <<>> THEN acc
    ELSE LET rule == Head(rules)
             validationResult == ValidateField(record[rule.field], rule)
         IN  ValidateRules(record, Tail(rules),
                [errors   |-> IF ~validationResult.isValid
                              THEN acc.errors \o validationResult.errors
                              ELSE acc.errors,
                 warnings |-> acc.warnings \o validationResult.warnings,
                 cleanedData |->
                    IF validationResult.cleanedData.defined
                    THEN [acc.cleanedData EXCEPT
                            ![rule.field] = validationResult.cleanedData.value]
                    ELSE acc.cleanedData])

\* validateRecord, lines 89-94: whether cleanedData is handed out.
CleanedDataReturnedAlways(errors) == TRUE

CleanedDataReturnedNever(errors) == FALSE

CleanedDataReturned(errors) == Len(errors) = 0

\* validateRecord, lines 66-95.
ValidateRecord(record, rules) ==
    LET acc == ValidateRules(record, rules,
                             [errors |-> <<>>, warnings |-> <<>>,
                              cleanedData |-> record])
    IN  [isValid  |-> Len(acc.errors) = 0,
         errors   |-> acc.errors,
         warnings |-> acc.warnings,
         cleanedData |-> IF CleanedDataReturned(acc.errors)
                         THEN [defined |-> TRUE, data |-> acc.cleanedData]
                         ELSE [defined |-> FALSE, data |-> record]]

NoValidationResult ==
    [called |-> FALSE, isValid |-> FALSE, errors |-> <<>>, warnings |-> <<>>,
     cleanedData |-> [defined |-> FALSE, data |-> [f \in Fields |-> JsUndefined]]]

ValInitValues ==
    /\ vRecord \in ValidationRecords
    /\ vRules \in RuleLists(MaxRules)
    /\ vResult = NoValidationResult

ValIdle ==
    /\ vRecord = [f \in Fields |-> JsUndefined]
    /\ vRules = <<>>
    /\ vResult = NoValidationResult

\* A validateRecord(vRecord, vRules) call, from its start to its return; no
\* other code runs on the service's state between its awaits.
ValidateRecordCall ==
    /\ ~vResult.called
    /\ vResult' = [called |-> TRUE] @@ ValidateRecord(vRecord, vRules)
    /\ UNCHANGED <<vRecord, vRules>>
    /\ UNCHANGED <<retryVars, cbVars, batchVars, etlVars, connVars, procVars, statVars, qmVars, qcVars>>

(***************************************************************************)
(*                            DataConnector                                *)
(***************************************************************************)

\* Bounds of the connector model.
MaxRequests  == 2
MaxWindow    == 2
MaxClock     == 3
MaxConnCalls == 3

SourceId  == "src"
UnknownId == "unknown"

NoRateLimit == [defined |-> FALSE, requests |-> 0, window |-> 0]

\* ApiConfig.rateLimit: absent, or {requests, window}.
RateLimits ==
    {NoRateLimit} \cup
    [defined : {TRUE}, requests : 0..MaxRequests, window : 1..MaxWindow]

\* The registered data source: an API source with or without a rate limit,
\* or a database source.
DataSources ==
    [type : {"api"}, rateLimit : RateLimits] \cup
    [type : {"database"}, rateLimit : {NoRateLimit}]

NoLimiter == [present |-> FALSE, requests |-> 0, resetTime |-> 0]

\* The arrays a source can return: no record, one record, two records.
SourceData == {<<>>, <<"rec">>, <<"rec", "rec">>}

\* A window is over when the clock has passed its resetTime.
WindowOver(t, resetTime) == t > resetTime

LimitReachedNever(requests, limit) == FALSE

LimitReached(requests, limit) == requests >= limit

\* checkRateLimit: whether it throws, and the limiter entry it leaves.
CheckRateLimit(limiter, rateLimit, t) ==
    IF ~rateLimit.defined
    THEN [throws |-> FALSE, limiter |-> limiter]
    ELSE IF ~limiter.present \/ WindowOver(t, limiter.resetTime)
    THEN [throws |-> FALSE,
          limiter |-> [present |-> TRUE, requests |-> 1,
                       resetTime |-> t + rateLimit.window]]
    ELSE IF LimitReached(limiter.requests, rateLimit.requests)
    THEN [throws |-> TRUE, limiter |-> limiter]
    ELSE [throws |-> FALSE,
          limiter |-> [limiter EXCEPT !.requests = @ + 1]]

RecordCountZero(data) == 0

RecordCount(data) == Len(data)

\* The DataConnectorResult of the try block.
ExtractSuccess(id, data) ==
    [success |-> TRUE, data |-> data, error |-> "none",
     metadata |-> [recordCount |-> RecordCount(data), source |-> id]]

\* The DataConnectorResult of the catch block.
ExtractFailure(id, message) ==
    [success |-> FALSE, data |-> <<>>, error |-> message,
     metadata |-> [recordCount |-> 0, source |-> id]]

NoExtractResult ==
    [success |-> FALSE, data |-> <<>>, error |-> "pending",
     metadata |-> [recordCount |-> 0, source |-> "none"]]

ConnInitValues ==
    /\ connections \in DataSources
    /\ rateLimiters = NoLimiter
    /\ connClock = 0
    /\ xcalls = <<>>

ConnIdle ==
    /\ connections = [type |-> "database", rateLimit |-> NoRateLimit]
    /\ rateLimiters = NoLimiter
    /\ connClock = 0
    /\ xcalls = <<>>

\* extractData(id) for an id that is not in connections: the lookup throws
\* and the catch block returns.
ExtractDataNotFound ==
    /\ Len(xcalls) < MaxConnCalls
    /\ xcalls' = Append(xcalls,
           [id |-> UnknownId, at |-> connClock, pc |-> "done",
            reached |-> FALSE,
            result |-> ExtractFailure(UnknownId, "not found")])
    /\ UNCHANGED <<connections, rateLimiters, connClock>>
    /\ UNCHANGED <<retryVars, cbVars, batchVars, etlVars, valVars, procVars, statVars, qmVars, qcVars>>

\* Whether checkRateLimit is called for the source, and what it does.
RateCheck ==
    IF connections.type = "api"
    THEN CheckRateLimit(rateLimiters, connections.rateLimit, connClock)
    ELSE [throws |-> FALSE, limiter |-> rateLimiters]

\* extractData(SourceId) whose checkRateLimit throws: the catch block
\* returns without a request to the source.
ExtractDataRateLimited ==
    /\ Len(xcalls) < MaxConnCalls
    /\ RateCheck.throws
    /\ xcalls' = Append(xcalls,
           [id |-> SourceId, at |-> connClock, pc |-> "done",
            reached |-> FALSE,
            result |-> ExtractFailure(SourceId, "rate limit")])
    /\ UNCHANGED <<connections, rateLimiters, connClock>>
    /\ UNCHANGED <<retryVars, cbVars, batchVars, etlVars, valVars, procVars, statVars, qmVars, qcVars>>

\* extractData(SourceId) that passes checkRateLimit and sends its request
\* to the source.
ExtractDataAdmitted ==
    /\ Len(xcalls) < MaxConnCalls
    /\ ~RateCheck.throws
    /\ rateLimiters' = RateCheck.limiter
    /\ xcalls' = Append(xcalls,
           [id |-> SourceId, at |-> connClock, pc |-> "extracting",
            reached |-> TRUE,
            result |-> NoExtractResult])
    /\ UNCHANGED <<connections, connClock>>
    /\ UNCHANGED <<retryVars, cbVars, batchVars, etlVars, valVars, procVars, statVars, qmVars, qcVars>>

\* The source answers call i with an array; extractData returns.
SourceResponds(i, data) ==
    /\ i \in 1..Len(xcalls)
    /\ xcalls[i].pc = "extracting"
    /\ xcalls' = [xcalls EXCEPT ![i].pc = "done",
                                ![i].result = ExtractSuccess(SourceId, data)]
    /\ UNCHANGED <<connections, rateLimiters, connClock>>
    /\ UNCHANGED <<retryVars, cbVars, batchVars, etlVars, valVars, procVars, statVars, qmVars, qcVars>>

\* The request of call i fails; the catch block returns.
SourceFails(i) ==
    /\ i \in 1..Len(xcalls)
    /\ xcalls[i].pc = "extracting"
    /\ xcalls' = [xcalls EXCEPT ![i].pc = "done",
                                ![i].result = ExtractFailure(SourceId, "source")]
    /\ UNCHANGED <<connections, rateLimiters, connClock>>
    /\ UNCHANGED <<retryVars, cbVars, batchVars, etlVars, valVars, procVars, statVars, qmVars, qcVars>>

\* A millisecond passes.
ConnTick ==
    /\ connClock < MaxClock
    /\ connClock' = connClock + 1
    /\ UNCHANGED <<connections, rateLimiters, xcalls>>
    /\ UNCHANGED <<retryVars, cbVars, batchVars, etlVars, valVars, procVars, statVars, qmVars, qcVars>>


(***************************************************************************)
(*                    StreamProcessor: processMessage                      *)
(***************************************************************************)

\* Bound of the processMessage model.
MaxProcMsgs == 2

ProcMsgs == 1..MaxProcMsgs

\* config.validation: not enabled, or enabled with an onFailure policy.
ValidationPolicies ==
    {[enabled |-> FALSE, onFailure |-> "skip"]} \cup
    [enabled : {TRUE}, onFailure : {"skip", "deadletter", "retry"}]

\* The part of StreamProcessorConfig processMessage reads: whether
\* outputTopic and errorHandling.deadLetterTopic are set, and validation.
ProcConfigs ==
    [outputTopic : BOOLEAN, deadLetterTopic : BOOLEAN,
     validation : ValidationPolicies]

\* The partial configurations passed to updateConfig.
ConfigPatches ==
    [outputTopic : BOOLEAN] \cup [deadLetterTopic : BOOLEAN]
        \cup [validation : ValidationPolicies]

\* updateConfig, line 204: { ...this.config, ...newConfig }.
MergeConfig(config, newConfig) == newConfig @@ config

NoProducer == "null"
TheProducer == "producer"

\* start(), lines 113-115: the producer is created only if an output topic
\* is configured.
ProducerAfterStart(config, old) ==
    IF config.outputTopic THEN TheProducer ELSE old

NewMessage ==
    [pc |-> "undelivered", valid |-> TRUE, result |-> "none",
     failedValidation |-> FALSE, deadLetterWanted |-> FALSE,
     rulesPassed |-> FALSE, outputWanted |-> FALSE, sendRejected |-> FALSE]

ProcInitValues ==
    /\ procConfig \in ProcConfigs
    /\ producer = NoProducer
    /\ pmsg = [m \in ProcMsgs |-> NewMessage]
    /\ outputLog = <<>>
    /\ deadLetterLog = <<>>

ProcIdle ==
    /\ procConfig = [outputTopic |-> FALSE, deadLetterTopic |-> FALSE,
                     validation |-> [enabled |-> FALSE, onFailure |-> "skip"]]
    /\ producer = NoProducer
    /\ pmsg = [m \in ProcMsgs |-> NewMessage]
    /\ outputLog = <<>>
    /\ deadLetterLog = <<>>

\* start(), lines 103-135.
ProcStart ==
    /\ ~isRunning
    /\ isRunning' = TRUE
    /\ producer' = ProducerAfterStart(procConfig, producer)
    /\ UNCHANGED <<procConfig, pmsg, outputLog, deadLetterLog>>
    /\ UNCHANGED <<batchConfig, consumer, batchBuffer, batchTimer, batches,
                   handlers, startPc, liveConsumers, stopPc, nextMsg, stats,
                   pushed>>
    /\ UNCHANGED <<retryVars, cbVars, etlVars, valVars, connVars, statVars, qmVars, qcVars>>

\* stop(), lines 149-175: the producer is kept.
ProcStop ==
    /\ isRunning
    /\ isRunning' = FALSE
    /\ UNCHANGED <<procConfig, producer, pmsg, outputLog, deadLetterLog>>
    /\ UNCHANGED <<batchConfig, consumer, batchBuffer, batchTimer, batches,
                   handlers, startPc, liveConsumers, stopPc, nextMsg, stats,
                   pushed>>
    /\ UNCHANGED <<retryVars, cbVars, etlVars, valVars, connVars, statVars, qmVars, qcVars>>

\* updateConfig(newConfig), lines 203-206.
UpdateConfig(newConfig) ==
    /\ procConfig' = MergeConfig(procConfig, newConfig)
    /\ procConfig' # procConfig
    /\ UNCHANGED <<producer, pmsg, outputLog, deadLetterLog>>
    /\ UNCHANGED <<retryVars, cbVars, batchVars, etlVars, valVars, connVars, statVars, qmVars, qcVars>>

\* processMessage, lines 314-326: the consumer hands message m (valid or
\* not under the validation rules) to the processor; validateRecord is
\* awaited if validation is enabled.
ProcessMessageBegins(m, valid) ==
    /\ isRunning
    /\ pmsg[m].pc = "undelivered"
    /\ \A k \in ProcMsgs : k < m => pmsg[k].pc # "undelivered"
    /\ pmsg' = [pmsg EXCEPT ![m].valid = valid,
                            ![m].pc = IF procConfig.validation.enabled
                                      THEN "validating" ELSE "rules"]
    /\ UNCHANGED <<procConfig, producer, outputLog, deadLetterLog>>
    /\ UNCHANGED <<retryVars, cbVars, batchVars, etlVars, valVars, connVars, statVars, qmVars, qcVars>>

\* handleValidationFailure, lines 484-495: whether the failed message is
\* sent to the dead-letter topic.
SendsToDeadLetter(config, prod) ==
    /\ config.validation.onFailure = "deadletter"
    /\ config.deadLetterTopic
    /\ prod # NoProducer

AfterValidationSkipContinues(valid, config, prod) ==
    IF valid \/ config.validation.onFailure = "skip" THEN "rules"
    ELSE IF SendsToDeadLetter(config, prod) THEN "sendingDeadLetter"
    ELSE "done"

\* processMessage, lines 328-330, and handleValidationFailure, lines
\* 480-529: where the call goes once validateRecord has resolved.
AfterValidation(valid, config, prod) ==
    IF valid THEN "rules"
    ELSE IF SendsToDeadLetter(config, prod) THEN "sendingDeadLetter"
    ELSE "done"

\* processMessage, lines 328-335, and handleValidationFailure, lines
\* 480-529, up to the send: validateRecord has resolved for message m.
ValidationResolves(m) ==
    /\ pmsg[m].pc = "validating"
    /\ pmsg' =
         IF pmsg[m].valid
         THEN [pmsg EXCEPT ![m].pc = AfterValidation(TRUE, procConfig, producer)]
         ELSE [pmsg EXCEPT
                 ![m].failedValidation = TRUE,
                 ![m].deadLetterWanted =
                     /\ procConfig.validation.onFailure = "deadletter"
                     /\ procConfig.deadLetterTopic,
                 ![m].pc = AfterValidation(FALSE, procConfig, producer),
                 ![m].result = IF SendsToDeadLetter(procConfig, producer)
                               THEN "none" ELSE "failed"]
    /\ UNCHANGED <<procConfig, producer, outputLog, deadLetterLog>>
    /\ UNCHANGED <<retryVars, cbVars, batchVars, etlVars, valVars, connVars, statVars, qmVars, qcVars>>

\* processMessage, line 350: whether the processed message is sent to the
\* output topic.
SendsToOutput(config, prod) == config.outputTopic /\ prod # NoProducer

\* processMessage, lines 337-369: the processing rules were applied to
\* message m without an error.
RulesApplied(m) ==
    /\ pmsg[m].pc = "rules"
    /\ pmsg' = [pmsg EXCEPT
                  ![m].rulesPassed = TRUE,
                  ![m].outputWanted = procConfig.outputTopic,
                  ![m].pc = IF SendsToOutput(procConfig, producer)
                            THEN "sendingOutput" ELSE "done",
                  ![m].result = IF SendsToOutput(procConfig, producer)
                                THEN "none" ELSE "success"]
    /\ UNCHANGED <<procConfig, producer, outputLog, deadLetterLog>>
    /\ UNCHANGED <<retryVars, cbVars, batchVars, etlVars, valVars, connVars, statVars, qmVars, qcVars>>

\* processMessage, lines 337-341 and 371-381: a processing rule throws.
RuleThrows(m) ==
    /\ pmsg[m].pc = "rules"
    /\ pmsg' = [pmsg EXCEPT ![m].pc = "done", ![m].result = "failed"]
    /\ UNCHANGED <<procConfig, producer, outputLog, deadLetterLog>>
    /\ UNCHANGED <<retryVars, cbVars, batchVars, etlVars, valVars, connVars, statVars, qmVars, qcVars>>

\* producer.send resolves: the broker holds the message.
SendResolves(m) ==
    /\ pmsg[m].pc \in {"sendingOutput", "sendingDeadLetter"}
    /\ IF pmsg[m].pc = "sendingOutput"
       THEN /\ outputLog' = Append(outputLog, [msg |-> m, value |-> "processed"])
            /\ pmsg' = [pmsg EXCEPT ![m].pc = "done", ![m].result = "success"]
            /\ UNCHANGED deadLetterLog
       ELSE /\ deadLetterLog' =
                   Append(deadLetterLog, [msg |-> m, errors |-> "errors"])
            /\ pmsg' = [pmsg EXCEPT ![m].pc = "done", ![m].result = "failed"]
            /\ UNCHANGED outputLog
    /\ UNCHANGED <<procConfig, producer>>
    /\ UNCHANGED <<retryVars, cbVars, batchVars, etlVars, valVars, connVars, statVars, qmVars, qcVars>>

\* producer.send rejects: the catch of processMessage (lines 371-381)
\* returns a failed result.
SendRejects(m) ==
    /\ pmsg[m].pc \in {"sendingOutput", "sendingDeadLetter"}
    /\ pmsg' = [pmsg EXCEPT ![m].pc = "done", ![m].result = "failed",
                            ![m].sendRejected = TRUE]
    /\ UNCHANGED <<procConfig, producer, outputLog, deadLetterLog>>
    /\ UNCHANGED <<retryVars, cbVars, batchVars, etlVars, valVars, connVars, statVars, qmVars, qcVars>>


(***************************************************************************)
(*                     DataQualityMonitorService                           *)
(***************************************************************************)

\* Bounds of the quality-monitor model.
MaxQmMsgs  == 2
MaxQmClock == 2

\* bufferSize, line 62.
BufferSize == 1000

\* initializeDefaultRules, lines 576-607.
RequiredCustomerId ==
    [id |-> "required-customer-id", name |-> "Customer ID Required",
     type |-> "completeness", field |-> "customerId", severity |-> "critical"]

ValidEmailFormat ==
    [id |-> "valid-email-format", name |-> "Valid Email Format",
     type |-> "validity", field |-> "email", severity |-> "warning"]

PositiveAmount ==
    [id |-> "positive-amount", name |-> "Positive Amount",
     type |-> "accuracy", field |-> "amount", severity |-> "warning"]

DefaultRules == {RequiredCustomerId, ValidEmailFormat, PositiveAmount}

\* The message values: customerId present or '', email matching the
\* pattern of the rule or not, amount inside or outside the range.
QmMessages ==
    [customerId : {"c1", ""}, email : {"a@b.c", "bad"}, amount : {5, -1}]

\* The ProcessingResult passed with a message: none, successful, failed.
QmResults == {"none", "success", "failed"}

\* line 593: the pattern ^[^@]+@[^@]+\.[^@]+$ on the values of the model.
EmailPatternMatches(v) == v = "a@b.c"

\* checkRule, lines 407-437: whether the rule reports a violation.
CheckRule(message, rule) ==
    CASE rule.type = "completeness" -> message[rule.field] = ""
      [] rule.type = "validity" -> ~EmailPatternMatches(message[rule.field])
      [] rule.type = "accuracy" ->
             message[rule.field] < 0 \/ message[rule.field] > 1000000
      [] OTHER -> FALSE

\* Map.set(alert.id, alert), lines 453 and 498.
SetAlert(as, alert) == {a \in as : a.id # alert.id} \cup {alert}

\* createAlert, lines 439-455.
RuleAlert(rule, t) ==
    [id |-> <<rule.id, t>>,
     severity |-> IF rule.severity = "critical" THEN "critical" ELSE "warning",
     metric |-> rule.name, threshold |-> 0, timestamp |-> t,
     acknowledged |-> FALSE, resolved |-> FALSE]

\* checkQualityRules, lines 396-405, for one message.
CheckQualityRules(as, rules, message, t) ==
    LET created == {RuleAlert(r, t) : r \in {x \in rules : CheckRule(message, x)}}
    IN  {a \in as : \A c \in created : c.id # a.id} \cup created

\* The metrics of the model, in the order updateMetrics sets them, and
\* their thresholds (lines 256-259 and 268-271).
MetricNames == <<"completeness", "accuracy", "uniqueness">>

WarningThreshold(name) == IF name = "completeness" THEN 90 ELSE 95

CriticalThreshold(name) == IF name = "completeness" THEN 80 ELSE 90

NoMetric == [present |-> FALSE, value |-> 0, trend |-> "stable"]

\* Math.abs on integers.
Abs(x) == IF x < 0 THEN 0 - x ELSE x

\* calculateTrend, lines 385-394, on values >= 0. With oldValue = 0 the
\* quotient is NaN for an unchanged value, for which both comparisons are
\* false, and Infinity for a risen one.
CalculateTrend(oldValue, newValue) ==
    IF oldValue = 0
    THEN IF newValue > 0 THEN "up" ELSE "down"
    ELSE IF Abs(newValue - oldValue) * 100 < oldValue THEN "stable"
    ELSE IF newValue > oldValue THEN "up" ELSE "down"

\* updateMetric, lines 370-383.
UpdateMetric(existingMetric, value) ==
    [present |-> TRUE, value |-> value,
     trend |-> IF existingMetric.present
               THEN CalculateTrend(existingMetric.value, value)
               ELSE "stable"]

\* The number of fields of the buffered messages that hold a value.
RECURSIVE CompleteFields(_)
CompleteFields(buffer) ==
    IF buffer = <<>> THEN 0
    ELSE (IF Head(buffer).customerId = "" THEN 2 ELSE 3)
             + CompleteFields(Tail(buffer))

\* updateCompletenessMetric, lines 237-260; the model keeps the whole
\* percents of the value.
Completeness(buffer) ==
    IF Len(buffer) > 0
    THEN (CompleteFields(buffer) * 100) \div (3 * Len(buffer)) ELSE 100

\* updateAccuracyMetric, lines 262-272; whole percents.
Accuracy(results) ==
    IF Len(results) > 0
    THEN (Cardinality({i \in DOMAIN results : results[i]}) * 100)
             \div Len(results)
    ELSE 100

\* updateUniquenessMetric, lines 345-368: the messages carry no key, so a
\* message is a duplicate when an equal value came before it; whole percents.
Uniqueness(buffer) ==
    IF Len(buffer) > 0
    THEN (Cardinality({buffer[i] : i \in DOMAIN buffer}) * 100) \div Len(buffer)
    ELSE 100

\* updateMetrics, lines 211-235.
UpdateMetrics(ms, buffer, results) ==
    IF Len(buffer) = 0 THEN ms
    ELSE [completeness |-> UpdateMetric(ms.completeness, Completeness(buffer)),
          accuracy     |-> UpdateMetric(ms.accuracy, Accuracy(results)),
          uniqueness   |-> UpdateMetric(ms.uniqueness, Uniqueness(buffer))]

\* generateRecommendations, lines 540-574: the recommendations in the order
\* they are pushed, each named by the metric or alert class it is about.
GenerateRecommendations(ms, as) ==
    (IF ms.completeness.present /\ ms.completeness.value < 90
     THEN <<"completeness">> ELSE <<>>)
    \o (IF ms.accuracy.present /\ ms.accuracy.value < 95
        THEN <<"accuracy">> ELSE <<>>)
    \o (IF \E a \in as : a.severity = "critical" /\ ~a.resolved
        THEN <<"critical alerts">> ELSE <<>>)

\* createThresholdAlert, lines 475-483: an alert of the same metric and
\* severity exists and is not resolved.
HasUnresolvedNever(as, name, severity) == FALSE

HasUnresolved(as, name, severity) ==
    \E a \in as : a.metric = name /\ a.severity = severity /\ ~a.resolved

\* createThresholdAlert, lines 471-500.
CreateThresholdAlert(as, name, severity, t) ==
    IF HasUnresolved(as, name, severity) THEN as
    ELSE SetAlert(as,
           [id |-> <<name, severity, t>>, severity |-> severity,
            metric |-> name,
            threshold |-> IF severity = "critical"
                          THEN CriticalThreshold(name)
                          ELSE WarningThreshold(name),
            timestamp |-> t, acknowledged |-> FALSE, resolved |-> FALSE])

\* checkAlerts, lines 457-469, for one metric.
CheckMetric(as, name, metric, t) ==
    LET warned ==
          IF /\ metric.value < WarningThreshold(name)
             /\ metric.value >= CriticalThreshold(name)
          THEN CreateThresholdAlert(as, name, "warning", t) ELSE as
    IN  IF metric.value < CriticalThreshold(name)
        THEN CreateThresholdAlert(warned, name, "critical", t) ELSE warned

\* checkAlerts, lines 457-469.
RECURSIVE CheckAlerts(_, _, _, _)
CheckAlerts(as, ms, names, t) ==
    IF names = <<>> THEN as
    ELSE CheckAlerts(IF ms[Head(names)].present
                     THEN CheckMetric(as, Head(names), ms[Head(names)], t)
                     ELSE as,
                     ms, Tail(names), t)

QmInitValues ==
    /\ qualityRules = DefaultRules
    /\ messageBuffer = <<>>
    /\ processingResults = <<>>
    /\ metrics = [completeness |-> NoMetric, accuracy |-> NoMetric,
                  uniqueness |-> NoMetric]
    /\ alerts = {}
    /\ qmClock = 0
    /\ qmCalls = 0

QmIdle == QmInitValues

\* The buffered messages and results after n earlier processMessage calls
\* that each passed a result.
FilledMessages(n) ==
    [i \in 1..n |->
        [customerId |-> IF i % 2 = 1 THEN "c1" ELSE "",
         email |-> "a@b.c", amount |-> 5]]

FilledResults(n) == [i \in 1..n |-> i % 2 = 1]

\* A monitor whose two buffers are full or about to be.
QmFilledInitValues ==
    /\ qualityRules = DefaultRules
    /\ \E n \in (BufferSize - 2)..BufferSize : messageBuffer = FilledMessages(n)
    /\ \E n \in (BufferSize - 2)..BufferSize :
           processingResults = FilledResults(n)
    /\ metrics = [completeness |-> NoMetric, accuracy |-> NoMetric,
                  uniqueness |-> NoMetric]
    /\ alerts = {}
    /\ qmClock = 0
    /\ qmCalls = 0

\* addQualityRule, lines 74-77.
AddQualityRule(rule) ==
    /\ rule \notin qualityRules
    /\ qualityRules' = qualityRules \cup {rule}
    /\ UNCHANGED <<messageBuffer, processingResults, metrics, alerts, qmClock>>
    /\ UNCHANGED <<retryVars, cbVars, batchVars, etlVars, valVars, connVars, procVars, statVars, qcVars>>

\* removeQualityRule, lines 82-88.
RemoveQualityRule(rule) ==
    /\ rule \in qualityRules
    /\ qualityRules' = qualityRules \ {rule}
    /\ UNCHANGED <<messageBuffer, processingResults, metrics, alerts, qmClock>>
    /\ UNCHANGED <<retryVars, cbVars, batchVars, etlVars, valVars, connVars, procVars, statVars, qcVars>>

TrimmedKeepsAll(buffer) == buffer

\* Array.shift once the buffer is over bufferSize, lines 102-108.
Trimmed(buffer) == IF Len(buffer) > BufferSize THEN Tail(buffer) ELSE buffer

\* processMessage(message, result), lines 93-112.
MonitorProcessMessage(message, result) ==
    /\ qmCalls < MaxQmMsgs
    /\ qmCalls' = qmCalls + 1
    /\ messageBuffer' = Trimmed(Append(messageBuffer, message))
    /\ processingResults' =
           IF result = "none" THEN processingResults
           ELSE Trimmed(Append(processingResults, result = "success"))
    /\ alerts' = CheckQualityRules(alerts, qualityRules, message, qmClock)
    /\ UNCHANGED <<qualityRules, metrics, qmClock>>
    /\ UNCHANGED <<retryVars, cbVars, batchVars, etlVars, valVars, connVars, procVars, statVars>>

\* The setInterval callback of lines 192-195, at its next due time.
MonitorTick ==
    /\ qmClock < MaxQmClock
    /\ qmClock' = qmClock + 1
    /\ metrics' = UpdateMetrics(metrics, messageBuffer, processingResults)
    /\ alerts' = CheckAlerts(alerts, metrics', MetricNames, qmClock')
    /\ UNCHANGED <<qualityRules, messageBuffer, processingResults>>
    /\ UNCHANGED <<retryVars, cbVars, batchVars, etlVars, valVars, connVars, procVars, statVars, qcVars>>

\* A millisecond passes without a tick.
MonitorTimePasses ==
    /\ qmClock < MaxQmClock
    /\ qmClock' = qmClock + 1
    /\ UNCHANGED <<qualityRules, messageBuffer, processingResults, metrics,
                   alerts>>
    /\ UNCHANGED <<retryVars, cbVars, batchVars, etlVars, valVars, connVars, procVars, statVars, qcVars>>

\* acknowledgeAlert(alertId), lines 138-146, for an id that exists.
AcknowledgeAlert(alert) ==
    /\ alert \in alerts
    /\ ~alert.acknowledged
    /\ alerts' = SetAlert(alerts, [alert EXCEPT !.acknowledged = TRUE])
    /\ UNCHANGED <<qualityRules, messageBuffer, processingResults, metrics,
                   qmClock>>
    /\ UNCHANGED <<retryVars, cbVars, batchVars, etlVars, valVars, connVars, procVars, statVars, qcVars>>

\* resolveAlert(alertId), lines 151-160, for an id that exists.
ResolveAlert(alert) ==
    /\ alert \in alerts
    /\ ~alert.resolved
    /\ alerts' = SetAlert(alerts, [alert EXCEPT !.resolved = TRUE,
                                                !.acknowledged = TRUE])
    /\ UNCHANGED <<qualityRules, messageBuffer, processingResults, metrics,
                   qmClock>>
    /\ UNCHANGED <<retryVars, cbVars, batchVars, etlVars, valVars, connVars, procVars, statVars, qcVars>>


(***************************************************************************)
(*                          Specifications                                 *)
(***************************************************************************)

RetryNext ==
    \E c \in RetryCalls :
        \/ RetryCall(c)
        \/ RetryAttemptSucceeds(c)
        \/ RetryAttemptFails(c)
        \/ RetryWake(c)

SpecRetryInit == RetryInitValues /\ CBIdle /\ BatchIdle /\ ETLIdle /\ ValIdle /\ ConnIdle /\ ProcIdle /\ StatIdle /\ QmIdle
SpecRetry == SpecRetryInit /\ [][RetryNext]_vars

RetryStatsNext ==
    \E c \in RetryCalls :
        \/ RetryCall(c)
        \/ RetryAttemptSucceeds(c)
        \/ RetryAttemptFails(c)
        \/ RetryWake(c)
        \/ RetryCallAgain(c)

\* Operations that fail with a retryable or with a non-retryable error.
RetryStatsInitValues ==
    /\ RetryInitValues
    /\ retryConfig.retryableErrors = << <<"A", "B">> >>
    /\ \A c \in RetryCalls :
          opScript[c].error \in
              { [message |-> <<"x", "a", "b", "x">>, code |-> NoCode],
                [message |-> <<"b", "a">>, code |-> NoCode] }

SpecRetryStatsInit ==
    RetryStatsInitValues /\ CBIdle /\ BatchIdle /\ ETLIdle /\ ValIdle
        /\ ConnIdle /\ ProcIdle /\ StatIdle /\ QmIdle
SpecRetryStats == SpecRetryStatsInit /\ [][RetryStatsNext]_vars

CBNext ==
    \/ \E c \in Callers :
        \/ CBCallRejected(c)
        \/ CBCallAdmitted(c)
        \/ CBOperationSucceeds(c)
        \/ CBOperationFails(c)
    \/ CBTick
    \/ CBReset

SpecCBInit == RetryIdle /\ CBInitValues /\ BatchIdle /\ ETLIdle /\ ValIdle /\ ConnIdle /\ ProcIdle /\ StatIdle /\ QmIdle
SpecCB == SpecCBInit /\ [][CBNext]_vars

StartNext ==
    \E s \in OverlappingStartCalls :
        \/ StartCall(s)
        \/ StartRejected(s)
        \/ StartConsuming(s)
        \/ StartComplete(s)

SpecStartInit ==
    RetryIdle /\ CBIdle /\ StartInitValues /\ ETLIdle /\ ValIdle /\ ConnIdle
        /\ ProcIdle /\ StatIdle /\ QmIdle
SpecStart == SpecStartInit /\ [][StartNext]_vars

BatchNext ==
    \/ \E s \in StartCalls :
        \/ StartCall(s)
        \/ StartRejected(s)
        \/ StartConsuming(s)
        \/ StartComplete(s)
    \/ HandleMessageParseError
    \/ HandleMessageSingle
    \/ HandleMessageSingleResolves
    \/ HandleBatchMessage
    \/ BatchTimerFires
    \/ ProcessBatchResolves
    \/ StopCallDrains
    \/ StopDisconnects
    \/ StopComplete

SpecBatchInit == RetryIdle /\ CBIdle /\ BatchInitValues /\ ETLIdle /\ ValIdle /\ ConnIdle /\ ProcIdle /\ StatIdle /\ QmIdle
SpecBatch == SpecBatchInit /\ [][BatchNext]_vars

\* The event loop runs a due timer callback, resolves an awaited
\* processBatch and continues a stop() whose await has resolved; calls and
\* deliveries from outside are not forced.
SpecBatchLive ==
    /\ SpecBatch
    /\ WF_vars(BatchTimerFires)
    /\ WF_vars(ProcessBatchResolves)
    /\ WF_vars(HandleMessageSingleResolves)
    /\ WF_vars(stopPc = "draining" /\ StopDisconnects)
    /\ WF_vars(StopComplete)

ExecutionStep(e) ==
    \/ TransactionOpens(e)
    \/ TransactionFails(e)
    \/ ExtractSucceeds(e)
    \/ ExtractFails(e)
    \/ Transform(e)
    \/ TransformThrows(e)
    \/ Validate(e)
    \/ Load(e)
    \/ LoadFails(e)
    \/ CommitSucceeds(e)
    \/ CommitFails(e)
    \/ RollbackSucceeds(e)
    \/ RollbackFails(e)

ETLNext ==
    \/ \E e \in Execs :
        \/ ExecuteJob(e)
        \/ ScheduledTrigger(e)
        \/ ExecutionStep(e)
    \/ CancelJob
    \/ RemoveJob
    \/ RegisterJob

SpecETLInit == RetryIdle /\ CBIdle /\ BatchIdle /\ ETLInitValues /\ ValIdle /\ ConnIdle /\ ProcIdle /\ StatIdle /\ QmIdle
SpecETL == SpecETLInit /\ [][ETLNext]_vars

\* executeJob calls made one after the other, and getJobHistory calls.
ETLHistoryNext ==
    \/ \E e \in Execs :
        \/ ExecuteJobStarts(e)
        \/ ExecutionStep(e)
    \/ \E limit \in 0..MaxLimit : GetJobHistoryCall(limit)

SpecETLHistory == SpecETLInit /\ [][ETLHistoryNext]_vars

\* One executeJob call, from its start to its end.
ETLRunNext ==
    \/ ExecuteJobStarts(1)
    \/ ExecutionStep(1)

SpecETLRunInit == RetryIdle /\ CBIdle /\ BatchIdle /\ ETLRunInitValues /\ ValIdle /\ ConnIdle /\ ProcIdle /\ StatIdle /\ QmIdle
SpecETLRun == SpecETLRunInit /\ [][ETLRunNext]_vars

ValNext == ValidateRecordCall

SpecValidateInit == RetryIdle /\ CBIdle /\ BatchIdle /\ ETLIdle /\ ValInitValues /\ ConnIdle /\ ProcIdle /\ StatIdle /\ QmIdle
SpecValidate == SpecValidateInit /\ [][ValNext]_vars

ConnNext ==
    \/ ExtractDataNotFound
    \/ ExtractDataRateLimited
    \/ ExtractDataAdmitted
    \/ \E i \in 1..MaxConnCalls : \E data \in SourceData : SourceResponds(i, data)
    \/ \E i \in 1..MaxConnCalls : SourceFails(i)
    \/ ConnTick

SpecConnectorInit ==
    RetryIdle /\ CBIdle /\ BatchIdle /\ ETLIdle /\ ValIdle /\ ConnInitValues
        /\ ProcIdle /\ StatIdle /\ QmIdle
SpecConnector == SpecConnectorInit /\ [][ConnNext]_vars

\* The messages that differ in customerId only.
CustomerIdMessages ==
    {message \in QmMessages : message.email = "a@b.c" /\ message.amount = 5}

AcknowledgeAlertCall == \E alert \in alerts : AcknowledgeAlert(alert)

ResolveAlertCall == \E alert \in alerts : ResolveAlert(alert)

MonitorNext ==
    \/ \E rule \in DefaultRules : AddQualityRule(rule)
    \/ \E rule \in DefaultRules : RemoveQualityRule(rule)
    \/ \E message \in QmMessages : MonitorProcessMessage(message, "none")
    \/ MonitorTimePasses

SpecMonitorInit ==
    RetryIdle /\ CBIdle /\ BatchIdle /\ ETLIdle /\ ValIdle /\ ConnIdle
        /\ ProcIdle /\ StatIdle /\ QmInitValues
SpecMonitor == SpecMonitorInit /\ [][MonitorNext]_vars

\* Messages that differ from every message of a filled buffer.
BufferMessages == {m \in QmMessages : m.email = "bad" /\ m.amount = 5}

BufferNext ==
    \E message \in BufferMessages, result \in QmResults :
        MonitorProcessMessage(message, result)

SpecBufferInit ==
    RetryIdle /\ CBIdle /\ BatchIdle /\ ETLIdle /\ ValIdle /\ ConnIdle
        /\ ProcIdle /\ StatIdle /\ QmFilledInitValues
SpecBuffer == SpecBufferInit /\ [][BufferNext]_vars

ReportNext ==
    \/ \E message \in CustomerIdMessages, result \in QmResults :
          MonitorProcessMessage(message, result)
    \/ MonitorTick
    \/ ResolveAlertCall

SpecReport == SpecMonitorInit /\ [][ReportNext]_vars

AlertsNext ==
    \/ \E message \in CustomerIdMessages :
          MonitorProcessMessage(message, "none")
    \/ MonitorTick
    \/ AcknowledgeAlertCall
    \/ ResolveAlertCall

SpecAlerts == SpecMonitorInit /\ [][AlertsNext]_vars

ProcNext ==
    \/ ProcStart
    \/ ProcStop
    \/ \E newConfig \in ConfigPatches : UpdateConfig(newConfig)
    \/ \E m \in ProcMsgs :
          \/ \E valid \in BOOLEAN : ProcessMessageBegins(m, valid)
          \/ ValidationResolves(m)
          \/ RulesApplied(m)
          \/ RuleThrows(m)
          \/ SendResolves(m)
          \/ SendRejects(m)

SpecProcessInit ==
    RetryIdle /\ CBIdle /\ BatchIdle /\ ETLIdle /\ ValIdle /\ ConnIdle
        /\ ProcInitValues /\ StatIdle /\ QmIdle
SpecProcess == SpecProcessInit /\ [][ProcNext]_vars

(***************************************************************************)
(*                             Properties                                  *)
(***************************************************************************)

\* The wrapped operation of call c throws a retryable error when it fails.
FailsRetryably(c) == IsRetryableError(opScript[c].error, retryConfig)

\* C1: an operation that fails with a retryable error exactly k times and
\* then succeeds, k < maxRetries, is invoked at most k+1 times, and when
\* executeWithRetry ends it has returned the success value after exactly k+1
\* invocations.
C1_RetryReturnsAfterKFailures ==
    \A c \in RetryCalls :
        (/\ opScript[c].failsBefore < retryConfig.maxRetries
         /\ (opScript[c].failsBefore > 0 => FailsRetryably(c)))
        => /\ invocations[c] <= opScript[c].failsBefore + 1
           /\ rpc[c] # "thrown"
           /\ RetryDone(c) => /\ outcome[c].kind = "success"
                              /\ invocations[c] = opScript[c].failsBefore + 1

C1_Witness ==
    \E c \in RetryCalls :
        /\ opScript[c].failsBefore = 2
        /\ retryConfig.maxRetries = 3
        /\ FailsRetryably(c)
        /\ outcome[c].kind = "success"
        /\ invocations[c] = 3
        /\ sleeps[c] = <<10, 20>>

\* C2 as stated: an operation that fails with a retryable error k times
\* before it would succeed, k >= maxRetries, makes executeWithRetry throw the
\* last error after exactly maxRetries+1 invocations.
C2_AsStated ==
    \A c \in RetryCalls :
        (/\ opScript[c].failsBefore >= retryConfig.maxRetries
         /\ opScript[c].failsBefore >= 1
         /\ FailsRetryably(c)
         /\ RetryDone(c))
        => /\ outcome[c] = [kind |-> "thrown", error |-> opScript[c].error]
           /\ invocations[c] = retryConfig.maxRetries + 1

\* C2 as amended: for k > maxRetries executeWithRetry throws the last error
\* after exactly maxRetries+1 invocations; for k = maxRetries the last retry
\* succeeds and the call returns after maxRetries+1 invocations.
C2_RetryThrowsAfterMaxRetries ==
    \A c \in RetryCalls :
        (/\ opScript[c].failsBefore >= retryConfig.maxRetries
         /\ opScript[c].failsBefore >= 1
         /\ FailsRetryably(c))
        => /\ invocations[c] <= retryConfig.maxRetries + 1
           /\ RetryDone(c) =>
                /\ invocations[c] = retryConfig.maxRetries + 1
                /\ IF opScript[c].failsBefore > retryConfig.maxRetries
                   THEN /\ outcome[c] = [kind |-> "thrown",
                                         error |-> opScript[c].error]
                        /\ lastError[c] = opScript[c].error
                   ELSE outcome[c].kind = "success"

C2_Witness ==
    \E c \in RetryCalls :
        /\ retryConfig.maxRetries = 2
        /\ opScript[c].failsBefore > 2
        /\ FailsRetryably(c)
        /\ outcome[c].kind = "thrown"
        /\ invocations[c] = 3

\* C3: when the operation fails with an error that matches none of
\* retryableErrors, executeWithRetry rethrows that error after exactly one
\* invocation, without sleeping, whatever maxRetries is.
C3_NonRetryablePropagates ==
    \A c \in RetryCalls :
        (/\ opScript[c].failsBefore >= 1
         /\ ~FailsRetryably(c))
        => /\ invocations[c] <= 1
           /\ sleeps[c] = <<>>
           /\ invocations[c] = 1 =>
                /\ rpc[c] = "thrown"
                /\ outcome[c] = [kind |-> "thrown", error |-> opScript[c].error]

C3_Witness ==
    \E c \in RetryCalls :
        /\ retryConfig.maxRetries = 3
        /\ retryConfig.retryableErrors # <<>>
        /\ opScript[c].failsBefore >= 1
        /\ opScript[c].error.code = <<"a", "b">>
        /\ rpc[c] = "thrown"
        /\ invocations[c] = 1

\* C4: starting from a closed breaker with failure count 0, right after
\* failureThreshold consecutive failed calls the breaker is open.
C4_OpenAfterThresholdFailures ==
    (/\ cbLast.kind = "failed"
     /\ streakClean
     /\ streak = cbConfig.failureThreshold)
    => breaker.state = "open"

C4_Witness ==
    /\ cbLast.kind = "failed"
    /\ streakClean
    /\ cbConfig.failureThreshold = 2
    /\ streak = 2
    /\ breaker.state = "open"
    /\ breaker.nextAttemptTime = now + cbConfig.resetTimeout

\* Caller c makes a call in this step.
CBCallsNow(c) == cbCalls' = cbCalls + 1 /\ cbLast'.caller = c

\* C5: while the breaker is open and resetTimeout has not elapsed, every call
\* fails with the breaker-open error, the operation is not invoked and the
\* breaker is left unchanged.
C5_OpenRejectsWithoutInvoking ==
    [][\A c \in Callers :
          (/\ CBCallsNow(c)
           /\ breaker.state = "open"
           /\ now < breaker.nextAttemptTime)
          => /\ cbLast'.kind = "rejected"
             /\ cpc'[c] = "idle"
             /\ breaker' = breaker]_vars

C5_Witness ==
    /\ cbLast.kind = "rejected"
    /\ breaker.state = "open"
    /\ now < breaker.nextAttemptTime
    /\ \E c \in Callers : cbLast.caller = c /\ cpc[c] = "idle"

\* C6: the first call made after resetTimeout has elapsed on an open breaker
\* moves it to half-open and invokes the operation; if that call succeeds the
\* breaker becomes closed with failureCount 0 and no nextAttemptTime.
C6_AsStated ==
    [][\A c \in Callers :
          /\ (/\ CBCallsNow(c)
              /\ breaker.state = "open"
              /\ now >= breaker.nextAttemptTime)
             => /\ breaker'.state = "half-open"
                /\ cpc'[c] = "inflight"
          /\ (/\ cpc[c] = "inflight"
              /\ cbAdmit[c] = "trial"
              /\ cpc'[c] = "idle"
              /\ cbLast'.kind = "ok")
             => /\ breaker'.state = "closed"
                /\ breaker'.failureCount = 0
                /\ breaker'.nextAttemptTime = Undefined]_vars

\* C7: if the call made while the breaker is half-open fails, the breaker
\* returns to open and the reset timeout restarts from that failure.
C7_AsStated ==
    [][\A c \in Callers :
          (/\ cpc[c] = "inflight"
           /\ cbAdmit[c] = "trial"
           /\ cpc'[c] = "idle"
           /\ cbLast'.kind = "failed")
          => /\ breaker'.state = "open"
             /\ breaker'.nextAttemptTime = now + cbConfig.resetTimeout]_vars

\* The calls in flight that were admitted by or during a half-open period.
TrialsInFlight ==
    {c \in Callers : cpc[c] = "inflight" /\ cbAdmit[c] \in {"trial", "half-open"}}

\* C8: in half-open state exactly one trial call is admitted: while it is in
\* flight no other call for the same name invokes the operation.
C8_AsStated ==
    breaker.state = "half-open" => Cardinality(TrialsInFlight) <= 1

\* C9: under every interleaving of arrivals, size trigger, timeout trigger and
\* stop(), every message put in the buffer is either still in the buffer or in
\* exactly one flushed batch, never in two and never twice.
C9_FlushedExactlyOnce ==
    /\ \A m \in pushed :
          CountIn(batchBuffer, m) + CountInBatches(batches, m) = 1
    /\ Range(batchBuffer) \subseteq pushed
    /\ \A j \in DOMAIN batches : Range(batches[j].msgs) \subseteq pushed

C9_Witness ==
    \E i, j \in DOMAIN batches :
        /\ i < j
        /\ batches[i].by = "size"
        /\ batches[j].by = "timer"

\* A message is handed to handleBatchMessage in this step.
BatchDelivery == pushed' # pushed

\* C10: with batchSize = n, the n-th message delivered to an empty buffer
\* triggers one flush of exactly the n messages in arrival order, leaving the
\* buffer empty and no timer armed; the messages before it trigger none.
C10_SizeTriggeredFlush ==
    [][(BatchDelivery /\ batchConfig.batchSize >= 1)
        => IF Len(batchBuffer) + 1 = batchConfig.batchSize
           THEN /\ batches' = Append(batches,
                                [msgs |-> Append(batchBuffer, nextMsg),
                                 results |-> <<>>, by |-> "size",
                                 done |-> FALSE])
                /\ batchBuffer' = <<>>
                /\ batchTimer' = "null"
           ELSE /\ Len(batchBuffer) + 1 < batchConfig.batchSize
                /\ batches' = batches
                /\ batchBuffer' = Append(batchBuffer, nextMsg)]_vars

C10_Witness ==
    /\ batchConfig.batchSize = 2
    /\ batchConfig.batchTimeout # 0
    /\ Len(batches) = 1
    /\ batches[1].by = "size"
    /\ batches[1].msgs = <<1, 2>>
    /\ batchBuffer = <<>>
    /\ batchTimer = "null"

\* The timer set by handleBatchMessage elapses in this step.
TimerElapses ==
    /\ batchTimer = "armed"
    /\ pushed' = pushed
    /\ stopPc' = stopPc
    /\ (batchBuffer' # batchBuffer \/ batchTimer' # batchTimer)

\* C11: in batch mode with batch size n and a batchTimeout configured,
\* delivering m messages, 0 < m < n, arms the timer, and when the timeout
\* elapses there is exactly one flush, of a batch holding all m buffered
\* messages in arrival order, and the buffer is left empty with no timer.
C11_TimeoutFlush ==
    /\ [](batchTimer = "armed"
            => /\ Len(batchBuffer) > 0
               /\ Len(batchBuffer) < EffectiveBatchSize(batchConfig))
    /\ [][(/\ BatchDelivery
           /\ batchConfig.batchTimeout # 0
           /\ Len(batchBuffer) + 1 < EffectiveBatchSize(batchConfig))
          => /\ batchTimer' = "armed"
             /\ batchBuffer' = Append(batchBuffer, nextMsg)]_vars
    /\ [][TimerElapses
          => /\ batches' = Append(batches,
                                  [msgs |-> batchBuffer, results |-> <<>>,
                                   by |-> "timer", done |-> FALSE])
             /\ batchBuffer' = <<>>
             /\ batchTimer' = "null"]_vars

C11_Witness ==
    /\ batchConfig.batchSize = MaxBatchSize
    /\ batchConfig.batchTimeout # 0
    /\ Len(batches) = 1
    /\ batches[1].by = "timer"
    /\ Len(batches[1].msgs) = MaxBatchSize - 1
    /\ batchBuffer = <<>>
    /\ batchTimer = "null"

\* C12: when stop() tells the consumer to disconnect, and until stop()
\* completes, no message is left in the batch buffer, messages that arrived
\* while stop() was draining included.
C12_AsStated == stopPc = "disconnecting" => batchBuffer = <<>>

\* Start call s is made in this step.
StartCalledNow(s) == startPc[s] = "idle" /\ startPc'[s] # "idle"

\* C13: start() on a processor that is already running throws 'already
\* running' and changes nothing: the processor stays running with the
\* consumer it has and no further consumer is subscribed.
C13_StartTwiceRejected ==
    [][\A s \in StartCalls :
          (StartCalledNow(s) /\ isRunning)
          => /\ startPc'[s] = "rejected"
             /\ isRunning'
             /\ consumer' = consumer
             /\ liveConsumers' = liveConsumers
             /\ <<batchBuffer, batchTimer, batches, stats>>' =
                    <<batchBuffer, batchTimer, batches, stats>>]_vars

C13_Witness ==
    \E s \in StartCalls :
        /\ startPc[s] = "rejected"
        /\ isRunning
        /\ consumer # NoConsumer
        /\ liveConsumers = {consumer}
        /\ batchBuffer # <<>>

\* The executeJob calls whose execution is in progress: started, and their
\* transaction neither committed nor rolled back yet.
InProgress ==
    {e \in Execs : epc[e] \in {"opening", "extracting", "transforming",
                               "validating", "loading", "committing",
                               "rollingBack"}}

\* C14: at most one execution of the job id is in progress at any time, under
\* every interleaving of executeJob, cancelJob, removeJob and interval
\* triggers, and a call made while one is in progress is rejected with
\* 'already running'.
C14_AsStated ==
    /\ [](Cardinality(InProgress) <= 1)
    /\ [][\A e \in Execs :
             (epc[e] = "idle" /\ epc'[e] # "idle" /\ InProgress # {}
                /\ JobId \in jobs)
             => /\ epc'[e] = "rejected"
                /\ eres'[e].error = "already running"]_vars

\* C15: the status of an execution moves only pending -> running ->
\* completed | failed | cancelled, and the last three are terminal.
C15_AsStated ==
    [][\A e \in Execs :
          \/ jobStatus'[e] = jobStatus[e]
          \/ jobStatus[e] = "pending" /\ jobStatus'[e] = "running"
          \/ /\ jobStatus[e] = "running"
             /\ jobStatus'[e] \in {"completed", "failed", "cancelled"}]_vars

\* C16: an execution that opened a transaction resolves it exactly once: it
\* commits exactly when it returns a successful result and the job becomes
\* completed, and it rolls back exactly when extraction, transformation,
\* validation or load raised, the job then becoming failed and the error
\* being rethrown.
C16_AsStated ==
    \A e \in Execs :
        (epc[e] = "done" /\ txnLog[e] # <<>>)
        => \/ /\ txnLog[e] = <<"begin", "commit">>
              /\ eres[e].kind = "returned"
              /\ jobStatus[e] = "completed"
           \/ /\ txnLog[e] = <<"begin", "rollback">>
              /\ locals[e].error \in {"extraction", "transformation",
                                      "validation", "load"}
              /\ eres[e] = [kind |-> "thrown", error |-> locals[e].error]
              /\ jobStatus[e] = "failed"

\* The results stored under a job id, none when the id has no entry.
HistoryOf(history, jobId) ==
    IF jobId \in DOMAIN history THEN history[jobId] ELSE <<>>

\* The results execution e has in the job's history.
ResultsOfExec(e) ==
    {i \in DOMAIN HistoryOf(jobHistory, JobId) :
        HistoryOf(jobHistory, JobId)[i].exec = e}

\* C17: an executeJob call that passed both checks has appended exactly one
\* result to the job's history when it ends, completed or failed; a rejected
\* call appends none; entries of the history are never changed or removed.
C17_AsStated ==
    /\ [](\A e \in Execs :
            /\ epc[e] = "done" => Cardinality(ResultsOfExec(e)) = 1
            /\ epc[e] \in {"idle", "rejected"} => ResultsOfExec(e) = {})
    /\ [][\A i \in DOMAIN HistoryOf(jobHistory, JobId) :
             /\ i \in DOMAIN HistoryOf(jobHistory', JobId)
             /\ HistoryOf(jobHistory', JobId)[i] =
                    HistoryOf(jobHistory, JobId)[i]]_vars

\* The last n elements of a sequence, n <= Len(q), in their order.
LastN(q, n) == [i \in 1..n |-> q[Len(q) - n + i]]

\* C18: getJobHistory(jobId, limit) returns, for every limit >= 0 (0
\* included), the min(limit, history length) most recent results of the job in
\* execution order, so at most limit results, and none for a job that was
\* never executed.
C18_AsStated ==
    [][returned' # returned
       => LET history == HistoryOf(jobHistory, JobId)
          IN  /\ Len(returned'.result) <= returned'.limit
              /\ returned'.result =
                    LastN(history, Min(returned'.limit, Len(history)))]_vars

\* The validation gate of the job stops, and a record that reaches it fails
\* validation.
GateStops ==
    /\ etlConfig.validation.enabled
    /\ etlConfig.validation.onFailure = "stop"
    /\ \E i \in DOMAIN TransformData(sourceData, etlConfig.transformations) :
          ~TransformData(sourceData, etlConfig.transformations)[i].valid

UpsertOfOne(e) ==
    /\ etlConfig.mode = "upsert"
    /\ epc[e] = "loading"
    /\ epc'[e] = "committing"
    /\ Len(locals[e].processedData) = 1

\* C20 as stated: in upsert mode, loading one record whose key matches an
\* existing row gives one update and no insert, loading one whose key matches
\* no row gives one insert and no update, and in both cases the table has one
\* row with that key afterwards.
C20_AsStated ==
    [][\A e \in Execs :
          UpsertOfOne(e)
          => LET key == locals[e].processedData[1].key
             IN  /\ IF locals[e].rows[key] > 0
                    THEN locals'[e].updated = 1 /\ locals'[e].inserted = 0
                    ELSE locals'[e].inserted = 1 /\ locals'[e].updated = 0
                 /\ locals'[e].rows[key] = 1]_vars

\* C20 as amended: one update and no insert when rows with the key exist, and
\* those rows stay as many as they were; one insert and no update when none
\* exists, and then there is one row with the key; rows of other keys are
\* untouched.
C20_UpsertOneRecord ==
    [][\A e \in Execs :
          UpsertOfOne(e)
          => LET key == locals[e].processedData[1].key
                 n   == locals[e].rows[key]
             IN  /\ IF n > 0
                    THEN /\ locals'[e].updated = 1 /\ locals'[e].inserted = 0
                         /\ locals'[e].rows[key] = n
                    ELSE /\ locals'[e].inserted = 1 /\ locals'[e].updated = 0
                         /\ locals'[e].rows[key] = 1
                 /\ \A k \in Keys \ {key} :
                        locals'[e].rows[k] = locals[e].rows[k]]_vars

C20_Witness ==
    /\ etlConfig.mode = "upsert"
    /\ epc[1] = "done"
    /\ jobStatus[1] = "completed"
    /\ Len(locals[1].processedData) = 1
    /\ locals[1].updated = 1
    /\ locals[1].inserted = 0
    /\ table[locals[1].processedData[1].key] = MaxRows
    /\ HistoryOf(jobHistory, JobId) = <<SuccessResult(1)>>

\* The rules of the call that report a violation for the record.
ViolatedRules ==
    {i \in DOMAIN vRules :
        ValidateField(vRecord[vRules[i].field], vRules[i]).errors # <<>>}

\* The rules of the call under which a type coercion occurred.
CoercingRules ==
    {i \in DOMAIN vRules :
        ValidateField(vRecord[vRules[i].field], vRules[i]).cleanedData.defined}

\* C21: validateRecord(r, R) returns isValid = true exactly when no rule of R
\* reports a violation for r, and cleanedData is defined exactly when the
\* errors list is empty.
C21_ValidIffNoViolation ==
    vResult.called
    => /\ vResult.isValid <=> ViolatedRules = {}
       /\ vResult.cleanedData.defined <=> vResult.errors = <<>>

C21_Witness ==
    /\ vResult.called
    /\ Len(vRules) = MaxRules
    /\ Cardinality(ViolatedRules) = 1
    /\ ~vResult.isValid
    /\ Len(vResult.errors) = 1
    /\ ~vResult.cleanedData.defined

\* C22 as stated: the result carries cleanedData exactly when the record is
\* valid or a type coercion occurred on one of its fields, also when one field
\* was coerced and another rule reported an error.
C22_AsStated ==
    vResult.called
    => (vResult.cleanedData.defined <=> (vResult.isValid \/ CoercingRules # {}))

\* C22 as amended: the result carries cleanedData exactly when the record is
\* valid; a coercion shows in cleanedData only then, and a record with a
\* coerced field and an error under another rule carries the coercion warning
\* and no cleanedData.
C22_CleanedDataOnlyWhenValid ==
    vResult.called
    => /\ vResult.cleanedData.defined <=> vResult.isValid
       /\ (CoercingRules # {} /\ ViolatedRules # {})
          => /\ ~vResult.cleanedData.defined
             /\ vResult.warnings # <<>>
       /\ (CoercingRules # {} /\ ViolatedRules = {})
          => \E f \in Fields : vResult.cleanedData.data[f] # vRecord[f]

C22_Witness ==
    /\ vResult.called
    /\ vRecord = [name |-> JsString(<<"1", "2">>), age |-> JsNull]
    /\ vRules = <<[field |-> "name", type |-> "type", cfg |-> "number"],
                  [field |-> "age", type |-> "required", cfg |-> "none"]>>
    /\ vResult.warnings = <<[field |-> "name", type |-> "converted"]>>
    /\ vResult.errors = <<[field |-> "age", type |-> "required"]>>
    /\ ~vResult.cleanedData.defined

\* The rules [required(name), required(age)].
RequiredNameAndAge ==
    <<[field |-> "name", type |-> "required", cfg |-> "none"],
      [field |-> "age", type |-> "required", cfg |-> "none"]>>

\* C23 as stated: validating {name: "", age: null} against [required(name),
\* required(age)] yields exactly one error, the one for age.
C23_AsStated ==
    (/\ vResult.called
     /\ vRecord = [name |-> JsString(<<>>), age |-> JsNull]
     /\ vRules = RequiredNameAndAge)
    => vResult.errors = <<[field |-> "age", type |-> "required"]>>

\* C23 as amended: validating {name: "", age: null} against [required(name),
\* required(age)] yields two errors, one for name and one for age: the empty
\* string violates a required rule as null and undefined do; a non-empty name
\* leaves the one error for age.
C23_EmptyStringIsRequiredViolation ==
    (/\ vResult.called
     /\ vRecord.age = JsNull
     /\ vRules = RequiredNameAndAge)
    => /\ ~vResult.isValid
       /\ vRecord.name = JsString(<<>>)
          => vResult.errors = <<[field |-> "name", type |-> "required"],
                                [field |-> "age", type |-> "required"]>>
       /\ vRecord.name = JsString(<<"a">>)
          => vResult.errors = <<[field |-> "age", type |-> "required"]>>

C23_Witness ==
    /\ vResult.called
    /\ vRecord = [name |-> JsString(<<>>), age |-> JsNull]
    /\ vRules = RequiredNameAndAge
    /\ Len(vResult.errors) = 2

(***************************************************************************)
(*                      DataConnector properties                           *)
(***************************************************************************)

\* The extractData calls made on the registered source, in call order.
SourceCalls == SelectSeq(xcalls, LAMBDA c : c.id = SourceId)

RateLimited == connections.type = "api" /\ connections.rateLimit.defined

NoWindow == [open |-> FALSE, start |-> 0, count |-> 0]

\* A call that was turned away by the rate limit: it has returned, with
\* success = false and the rate-limit error, and sent nothing to the source.
FailedFast(c) ==
    /\ ~c.reached
    /\ c.pc = "done"
    /\ ~c.result.success
    /\ c.result.error = "rate limit"

\* Walk the calls in call order, keeping the window they fall in: the
\* window opens with the first call that reaches the source when no window
\* is open or the last one is over, and is over once more than W
\* milliseconds have passed since it opened.
RECURSIVE WindowsHonoured(_, _, _, _)
WindowsHonoured(calls, win, R, W) ==
    IF calls = <<>> THEN TRUE
    ELSE LET c == Head(calls)
             inWindow == win.open /\ c.at <= win.start + W
         IN  IF inWindow
             THEN /\ win.count >= R => FailedFast(c)
                  /\ c.reached => win.count + 1 <= R
                  /\ ~c.reached => FailedFast(c)
                  /\ WindowsHonoured(Tail(calls),
                         IF c.reached
                         THEN [win EXCEPT !.count = @ + 1] ELSE win, R, W)
             ELSE /\ win.open => c.reached
                  /\ c.reached => 1 <= R
                  /\ ~c.reached => FailedFast(c)
                  /\ WindowsHonoured(Tail(calls),
                         IF c.reached
                         THEN [open |-> TRUE, start |-> c.at, count |-> 1]
                         ELSE win, R, W)

\* C24 as stated: for every rate limit {requests: R, window: W}, at most R
\* calls reach the source in one window, every further call of the window
\* fails fast with the rate-limit error, and the first call after the window
\* is admitted again.
C24_AsStated ==
    RateLimited =>
        WindowsHonoured(SourceCalls, NoWindow,
                        connections.rateLimit.requests,
                        connections.rateLimit.window)

\* C24 (amended): the statement holds for every rate limit with R >= 1, a
\* window lasting until the clock has passed the W-th millisecond after its
\* first admitted call.
C24_RateLimitForPositiveR ==
    (RateLimited /\ connections.rateLimit.requests >= 1) =>
        WindowsHonoured(SourceCalls, NoWindow,
                        connections.rateLimit.requests,
                        connections.rateLimit.window)

\* R = 1: a call admitted, a second call of the same window turned away,
\* and a third call admitted after the window.
C24_Witness ==
    /\ RateLimited
    /\ connections.rateLimit.requests = 1
    /\ Len(SourceCalls) = 3
    /\ SourceCalls[1].reached
    /\ FailedFast(SourceCalls[2])
    /\ SourceCalls[2].at <= SourceCalls[1].at + connections.rateLimit.window
    /\ SourceCalls[3].reached
    /\ SourceCalls[3].at > SourceCalls[1].at + connections.rateLimit.window

\* What the catch block returns for call c: success = false, an error
\* string, and metadata with recordCount 0 and the source id of the call.
FailureShape(c) ==
    /\ ~c.result.success
    /\ c.result.error \in {"not found", "rate limit", "source"}
    /\ c.result.metadata.recordCount = 0
    /\ c.result.metadata.source = c.id

\* C25: every extractData call returns a result and never throws: a call on
\* an unregistered id, a call over the rate limit and a call whose source
\* fails return success = false with an error string and metadata
\* {recordCount 0, source id}; a successful call returns metadata whose
\* recordCount is the number of returned records.
C25_ExtractDataResults ==
    \A i \in 1..Len(xcalls) :
        LET c == xcalls[i]
        IN  /\ (c.id = UnknownId \/ ~c.reached) =>
                /\ c.pc = "done"
                /\ FailureShape(c)
                /\ c.result.error =
                       IF c.id = UnknownId THEN "not found" ELSE "rate limit"
            /\ c.pc = "done" =>
                IF c.result.success
                THEN /\ c.reached
                     /\ c.result.error = "none"
                     /\ c.result.metadata.recordCount = Len(c.result.data)
                     /\ c.result.metadata.source = c.id
                ELSE FailureShape(c)

\* A failing source, an exceeded rate limit and an unregistered id have each
\* produced their failed result.
C25_Witness ==
    /\ \E i \in 1..Len(xcalls) :
          xcalls[i].pc = "done" /\ xcalls[i].result.error = "source"
    /\ \E i \in 1..Len(xcalls) :
          xcalls[i].pc = "done" /\ xcalls[i].result.error = "rate limit"
    /\ \E i \in 1..Len(xcalls) :
          xcalls[i].pc = "done" /\ xcalls[i].result.error = "not found"

(***************************************************************************)
(*                     processMessage properties                           *)
(***************************************************************************)

\* How often message m was published to a topic.
PublishedCount(log, m) == Cardinality({i \in DOMAIN log : log[i].msg = m})

\* C26 as stated: a message that failed validation while the policy was
\* deadletter and a dead-letter topic was configured has been published
\* exactly once to the dead-letter topic, with its validation errors, once
\* its processMessage call has returned, and its result is a failure;
\* this with or without an output topic.  A message whose send the broker
\* rejected is left aside.
C26_AsStated ==
    \A m \in ProcMsgs :
        (/\ pmsg[m].pc = "done"
         /\ pmsg[m].failedValidation
         /\ pmsg[m].deadLetterWanted
         /\ ~pmsg[m].sendRejected)
        => /\ PublishedCount(deadLetterLog, m) = 1
           /\ \A i \in DOMAIN deadLetterLog :
                  deadLetterLog[i].msg = m => deadLetterLog[i].errors = "errors"
           /\ pmsg[m].result = "failed"

\* C27 as stated: a message that passed validation and every processing
\* rule while an output topic was configured (by the constructor or by
\* updateConfig) has been published exactly once to the output topic once
\* its processMessage call has returned.  A message whose send the broker
\* rejected is left aside.
C27_AsStated ==
    \A m \in ProcMsgs :
        (/\ pmsg[m].pc = "done"
         /\ pmsg[m].rulesPassed
         /\ pmsg[m].outputWanted
         /\ ~pmsg[m].sendRejected)
        => PublishedCount(outputLog, m) = 1

(***************************************************************************)
(*                        updateStats properties                           *)
(***************************************************************************)

RECURSIVE SumCalls(_, _)
SumCalls(calls, n) == IF n = 0 THEN 0 ELSE calls[n] + SumCalls(calls, n - 1)

\* Message m was handed to the processor and nothing of it is pending: it
\* is in no handleMessage call in flight, not in the buffer and not in a
\* batch that is still being processed.
Processed(m) ==
    /\ m < nextMsg
    /\ [kind |-> "single", of |-> m] \notin handlers
    /\ CountIn(batchBuffer, m) = 0
    /\ \A j \in DOMAIN batches : ~batches[j].done => CountIn(batches[j].msgs, m) = 0
    /\ m \in pushed => CountInBatches(batches, m) > 0

IsThresholdAlert(a) == a.threshold # 0

Severities == {"warning", "critical"}

UnresolvedThresholdAlerts(as, name, severity) ==
    {a \in as : /\ IsThresholdAlert(a)
                /\ a.metric = name /\ a.severity = severity /\ ~a.resolved}

\* C29: at most one unresolved threshold alert exists per (metric,
\* severity) pair in every reachable state, and a step creates a threshold
\* alert of a pair only when no unresolved alert of that pair existed.
C29_ThresholdAlertsDeduplicated ==
    /\ [](\A i \in DOMAIN MetricNames, severity \in Severities :
            Cardinality(UnresolvedThresholdAlerts(alerts, MetricNames[i],
                                                  severity)) <= 1)
    /\ [][\A a \in alerts' :
            (IsThresholdAlert(a) /\ \A b \in alerts : b.id # a.id)
            => ~\E b \in alerts :
                  b.metric = a.metric /\ b.severity = a.severity /\ ~b.resolved]_vars

\* A threshold alert was resolved and a later tick has raised a new alert
\* of the same pair, while an acknowledged alert of another pair is still
\* the only one of its pair.
C29_Witness ==
    /\ \E a, b \in alerts :
          /\ IsThresholdAlert(a) /\ IsThresholdAlert(b)
          /\ a.metric = b.metric /\ a.severity = b.severity
          /\ a.resolved /\ ~b.resolved
    /\ \E c \in alerts :
          /\ IsThresholdAlert(c) /\ c.acknowledged /\ ~c.resolved
          /\ c.timestamp < qmClock

\* The rules of the registry that message violates.
ViolatedQualityRules(message) == {r \in qualityRules : CheckRule(message, r)}

\* C30 as stated: a processMessage call leaves, for every registered rule
\* the message violates, an unacknowledged alert of that rule raised at
\* the time of the call, each violation as an alert of its own beside the
\* alerts of the earlier messages, also when the clock has not moved since
\* an earlier violating message.
C30_AsStated ==
    [][Len(messageBuffer') = Len(messageBuffer) + 1 =>
         LET message == messageBuffer'[Len(messageBuffer')]
             violated == ViolatedQualityRules(message)
         IN  /\ \A r \in violated :
                   \E a \in alerts' :
                       /\ a.metric = r.name
                       /\ a.timestamp = qmClock
                       /\ ~a.acknowledged
             /\ Cardinality(alerts') =
                    Cardinality(alerts) + Cardinality(violated)]_vars

\* C31: neither buffer of the monitor ever holds more than bufferSize
\* entries, and a processMessage call leaves in each buffer the most recent
\* entries in arrival order: the earlier content followed by the new entry,
\* without its oldest entry when that would exceed the capacity.
C31_RollingBuffers ==
    /\ [](Len(messageBuffer) <= BufferSize /\ Len(processingResults) <= BufferSize)
    /\ [][/\ qmCalls' # qmCalls =>
               LET all == Append(messageBuffer, messageBuffer'[Len(messageBuffer')])
               IN  messageBuffer' = LastN(all, Min(Len(all), BufferSize))
          /\ processingResults' # processingResults =>
               LET all == Append(processingResults,
                                 processingResults'[Len(processingResults')])
               IN  processingResults' = LastN(all, Min(Len(all), BufferSize))]_vars

\* Both buffers are full, and calls made on full buffers have evicted.
C31_Witness ==
    /\ qmCalls >= 2
    /\ Len(messageBuffer) = BufferSize
    /\ Len(processingResults) = BufferSize
    /\ messageBuffer[BufferSize].email = "bad"
    /\ messageBuffer[BufferSize - 1].email = "bad"
    /\ messageBuffer[1] # FilledMessages(1)[1]

\* C32 as stated: whenever a call has exhausted its retries the counter of
\* the operation name is maxRetries + 1.
C32_AsStated ==
    \A c \in RetryCalls :
        (rpc[c] = "thrown" /\ attempt[c] > retryConfig.maxRetries)
            => errorStats = retryConfig.maxRetries + 1

\* No other call of the same operation name has been made.
OnlyCall(c) == \A d \in RetryCalls \ {c} : rpc[d] = "idle"

\* C32: every failed attempt adds exactly one to the counter of the operation
\* name and every successful attempt sets it to 0; a call that ran alone and
\* exhausted its retries leaves the counter maxRetries + 1 above what it
\* found (maxRetries + 1 when it found none), and one that succeeded leaves 0.
C32_ErrorCounter ==
    /\ [][\A c \in RetryCalls :
            /\ (invocations'[c] = invocations[c] + 1 /\ rpc'[c] # "returned")
                  => errorStats' = errorStats + 1
            /\ (invocations'[c] = invocations[c] + 1 /\ rpc'[c] = "returned")
                  => errorStats' = 0
            /\ (\A d \in RetryCalls : invocations'[d] <= invocations[d])
                  => errorStats' = errorStats]_vars
    /\ [](\A c \in RetryCalls :
            OnlyCall(c) =>
                /\ (rpc[c] = "thrown" /\ attempt[c] > retryConfig.maxRetries)
                      => errorStats = statsAtCall[c] + retryConfig.maxRetries + 1
                /\ rpc[c] = "returned" => errorStats = 0)

\* A first call exhausted maxRetries >= 1 retries, and so did a second one
\* that found the counter the first one left.
C32_Witness ==
    \E c \in RetryCalls :
        /\ rpc[c] = "thrown"
        /\ retryConfig.maxRetries >= 1
        /\ attempt[c] > retryConfig.maxRetries
        /\ statsAtCall[c] = retryConfig.maxRetries + 1
        /\ errorStats = 2 * (retryConfig.maxRetries + 1)

\* The trend the statement gives a metric that went from oldValue to newValue.
StatedTrend(oldValue, newValue) ==
    IF Abs(newValue - oldValue) * 100 < oldValue THEN "stable"
    ELSE IF newValue > oldValue THEN "up"
    ELSE IF newValue < oldValue THEN "down"
    ELSE "stable"

\* C33 as stated: the first computation of a metric is 'stable', and every
\* recomputation sets its trend to 'stable' when the value moved by less than
\* 1% of the previous value, to 'up' when it rose by at least that and to
\* 'down' when it fell by at least that, a previous value of 0 included.
C33_AsStated ==
    [][\A i \in DOMAIN MetricNames :
          LET old == metrics[MetricNames[i]]
              new == metrics'[MetricNames[i]]
          IN  qmClock' # qmClock /\ new.present =>
                  new.trend = IF old.present
                              THEN StatedTrend(old.value, new.value)
                              ELSE "stable"]_vars

\* The recommendations generateReport returns in the current state.
Recommended == LET recs == GenerateRecommendations(metrics, alerts)
               IN  {recs[i] : i \in DOMAIN recs}

UnresolvedCritical == \E a \in alerts : a.severity = "critical" /\ ~a.resolved

\* C34 as stated: the report carries a recommendation for every metric whose
\* value is below its warning threshold, one more when a critical alert is
\* unresolved, and none when no metric is below its warning threshold and no
\* critical alert is unresolved.
C34_AsStated ==
    /\ \A i \in DOMAIN MetricNames :
          (/\ metrics[MetricNames[i]].present
           /\ metrics[MetricNames[i]].value < WarningThreshold(MetricNames[i]))
              => MetricNames[i] \in Recommended
    /\ UnresolvedCritical => "critical alerts" \in Recommended
    /\ (/\ \A i \in DOMAIN MetricNames :
              metrics[MetricNames[i]].present =>
                  metrics[MetricNames[i]].value >= WarningThreshold(MetricNames[i])
        /\ ~UnresolvedCritical)
          => Recommended = {}

\* C35: in every reachable state of the breaker of an operation name called
\* with one failureThreshold >= 1, whatever the interleaving of its callers:
\* an open breaker has failureCount >= failureThreshold and a
\* nextAttemptTime, and a closed breaker has failureCount < failureThreshold.
C35_BreakerStateInvariant ==
    /\ breaker.state = "open" =>
          /\ breaker.failureCount >= cbConfig.failureThreshold
          /\ breaker.nextAttemptTime # Undefined
    /\ breaker.state = "closed" =>
          breaker.failureCount < cbConfig.failureThreshold

\* Two calls were in flight together; the failure of one has opened the
\* breaker at a threshold above 1 while the other is still in flight.
C35_Witness ==
    /\ cbConfig.failureThreshold >= 2
    /\ breaker.state = "open"
    /\ cbLast.kind = "failed"
    /\ \E c \in Callers : cpc[c] = "inflight"

\* The step ends a call of the given kind ("ok" or "failed").
CallEnds(kind) ==
    /\ \E c \in Callers : cpc[c] = "inflight" /\ cpc'[c] = "idle"
    /\ cbLast'.kind = kind

C37_AsStated ==
    /\ Cardinality({s \in DOMAIN startPc : startPc[s] = "done"}) <= 1
    /\ Cardinality(liveConsumers) <= 1

\* C38 as stated: in batch mode with a batchTimeout configured, every message
\* placed in the batch buffer is eventually processed and counted in the
\* statistics, whenever it arrived.
C38_AsStated ==
    \A m \in 1..MaxMsgs :
        (batchConfig.enabled /\ batchConfig.batchTimeout # 0 /\ m \in pushed)
            ~> (statCalls[m] >= 1)

\* C39: a message that failed the validation gate, whatever the policy, has
\* no processing rule applied and is never published to the output topic,
\* and the result of its processMessage call is a failure (which carries no
\* processedMessage).
C39_InvalidNeverProcessed ==
    \A m \in ProcMsgs :
        pmsg[m].failedValidation =>
            /\ ~pmsg[m].rulesPassed
            /\ pmsg[m].pc \notin {"rules", "sendingOutput"}
            /\ \A i \in DOMAIN outputLog : outputLog[i].msg # m
            /\ pmsg[m].result # "success"
            /\ pmsg[m].pc = "done" => pmsg[m].result = "failed"

\* With an output topic and a producer at hand, one message failed the gate
\* and went to the dead-letter topic and another failed it and was dropped.
C39_Witness ==
    /\ procConfig.outputTopic
    /\ producer # NoProducer
    /\ \E m, k \in ProcMsgs :
          /\ pmsg[m].failedValidation /\ pmsg[m].pc = "done"
          /\ \E i \in DOMAIN deadLetterLog : deadLetterLog[i].msg = m
          /\ pmsg[k].failedValidation /\ pmsg[k].pc = "done"
          /\ \A i \in DOMAIN deadLetterLog : deadLetterLog[i].msg # k

\* The records that came out of the transformation steps of the job.
Transformed == TransformData(sourceData, etlConfig.transformations)

\* The successful results stored for the job.
SuccessfulResults ==
    IF JobId \in DOMAIN jobHistory
    THEN {jobHistory[JobId][i] : i \in {j \in DOMAIN jobHistory[JobId] :
                                            jobHistory[JobId][j].success}}
    ELSE {}

\* C40: in the result of every successful execution the inserted, updated,
\* skipped and failed counts add up to the number of records that came out
\* of the transformation steps; recordsFailed is 0 under skip and
\* recordsSkipped is 0 under quarantine; and with the validation gate on,
\* the records handed to loadData are exactly the ones that passed it.
C40_CountsAddUp ==
    /\ \A r \in SuccessfulResults :
          /\ r.recordsInserted + r.recordsUpdated + r.recordsSkipped
                 + r.recordsFailed = Len(Transformed)
          /\ etlConfig.validation.onFailure = "skip" => r.recordsFailed = 0
          /\ etlConfig.validation.onFailure = "quarantine" => r.recordsSkipped = 0
          /\ etlConfig.validation.enabled =>
                r.recordsInserted + r.recordsUpdated =
                    Cardinality({i \in DOMAIN Transformed : Transformed[i].valid})
    /\ \A e \in Execs :
          (etlConfig.validation.enabled /\ epc[e] \in {"loading", "committing", "done"}
              /\ eres[e].error = "none")
          => \A i \in DOMAIN locals[e].processedData :
                 locals[e].processedData[i].valid

\* A successful run under quarantine over two transformed records: one was
\* set aside and the other updated a row of the table.
C40_Witness ==
    \E r \in SuccessfulResults :
        /\ etlConfig.validation.enabled
        /\ etlConfig.validation.onFailure = "quarantine"
        /\ r.recordsFailed = 1
        /\ r.recordsUpdated = 1
        /\ Len(Transformed) = 2

====
